---- MODULE Spec2Model ----
(***************************************************************************)
(* Model of the budget_manager recommendation engine:                      *)
(*   core/calculator.py            BudgetCalculator                        *)
(*   services/recommendation_service.py  RecommendationService             *)
(*   services/budget_service.py    BudgetService (income, savings goals)   *)
(*   services/expense_service.py   ExpenseService                          *)
(*   services/auth_service.py      AuthService                             *)
(*   storage/github_storage.py     GitHubStorage                           *)
(*                                                                         *)
(* Money is kept in integer cents (the DECIMAL(10, 2) columns).  A Decimal *)
(* that comes out of a division is kept as the reduced fraction of cents   *)
(* [n, d] with a flag `exact` that says whether the quotient has a finite  *)
(* decimal expansion, i.e. whether Python's Decimal represents it without  *)
(* rounding to its 28 significant digits.                                  *)
(***************************************************************************)
EXTENDS Integers, Sequences, FiniteSets, TLC

VARIABLES today, income_entries, savings_goals, expenses, next_id, result, calls,
          users, files

vars == <<today, income_entries, savings_goals, expenses, next_id, result, calls,
          users, files>>

-----------------------------------------------------------------------------
(* Bounds of the model.                                                    *)

\* the longest list of expenses and of income entries handed to the calculator
MaxExpenses == 2
MaxIncomeEntries == 1
\* the most rows the database holds, all tables together, and the highest id a
\* table gives
MaxRows == 2

-----------------------------------------------------------------------------
(* datetime.date: calendar dates, their order and their differences.       *)

Date(y, m, d) == [year |-> y, month |-> m, day |-> d]

IsLeap(y) == (y % 4 = 0 /\ y % 100 # 0) \/ y % 400 = 0

\* calendar.monthrange(year, month)[1]
DaysInMonth(y, m) ==
    IF m = 2 THEN (IF IsLeap(y) THEN 29 ELSE 28)
    ELSE IF m \in {4, 6, 9, 11} THEN 30 ELSE 31

RECURSIVE DaysBeforeMonth(_, _)
DaysBeforeMonth(y, m) ==
    IF m = 1 THEN 0 ELSE DaysBeforeMonth(y, m - 1) + DaysInMonth(y, m - 1)

RECURSIVE DaysBeforeYear(_)
DaysBeforeYear(y) ==
    IF y <= 2023 THEN 0
    ELSE DaysBeforeYear(y - 1) + (IF IsLeap(y - 1) THEN 366 ELSE 365)

\* date.toordinal(), counted from the first year of the model
Ordinal(dt) == DaysBeforeYear(dt.year) + DaysBeforeMonth(dt.year, dt.month) + dt.day

\* (a - b).days
DaysBetween(a, b) == Ordinal(a) - Ordinal(b)

\* a < b on dates
DateLess(a, b) == Ordinal(a) < Ordinal(b)

\* dt.replace(day=1)
ReplaceDay1(dt) == Date(dt.year, dt.month, 1)

SameMonth(a, b) == a.month = b.month /\ a.year = b.year

\* the first day of the month after dt's month
FirstOfNextMonth(dt) ==
    IF dt.month = 12 THEN Date(dt.year + 1, 1, 1) ELSE Date(dt.year, dt.month + 1, 1)

\* Optional values: None is the empty tuple, a value v is <<v>>.
None == <<>>
Some(v) == <<v>>
IsNone(o) == o = <<>>
Get(o) == o[1]

\* str: a string whose whitespace matters is a sequence of characters
RECURSIVE LStrip(_)
LStrip(str) == IF str # <<>> /\ Head(str) = " " THEN LStrip(Tail(str)) ELSE str

RECURSIVE RStrip(_)
RStrip(str) ==
    IF str # <<>> /\ str[Len(str)] = " " THEN RStrip(SubSeq(str, 1, Len(str) - 1)) ELSE str

\* str.strip()
Strip(str) == RStrip(LStrip(str))

\* not description, alone
IsBlank_EmptyOnly(str) == str = <<>>

\* not description or not description.strip()
IsBlank(str) == str = <<>> \/ Strip(str) = <<>>

-----------------------------------------------------------------------------
(* decimal.Decimal                                                         *)

RECURSIVE Gcd(_, _)
Gcd(a, b) == IF b = 0 THEN a ELSE Gcd(b, a % b)

Abs(x) == IF x < 0 THEN -x ELSE x

RECURSIVE StripFactor(_, _)
StripFactor(d, p) == IF d % p = 0 THEN StripFactor(d \div p, p) ELSE d

\* n/d has a finite decimal expansion iff the reduced d has no prime factor
\* other than 2 and 5
Terminating(d) == StripFactor(StripFactor(d, 2), 5) = 1

DecNorm(n, d, exact) ==
    LET g == Gcd(Abs(n), d)
    IN  IF n = 0 THEN [n |-> 0, d |-> 1, exact |-> exact]
        ELSE [n |-> n \div g, d |-> d \div g, exact |-> exact]

\* Decimal of an amount of cents
Dec(cents) == [n |-> cents, d |-> 1, exact |-> TRUE]

DecZero == Dec(0)

\* x / Decimal(str(k)), k a positive integer
DecDivInt(x, k) ==
    LET q == DecNorm(x.n, x.d * k, TRUE)
    IN  [q EXCEPT !.exact = x.exact /\ Terminating(q.d)]

\* x * Decimal(str(k)); the product by 0 is 0 whatever digits x has lost
DecMulInt(x, k) == DecNorm(x.n * k, x.d, x.exact \/ k = 0)

DecAdd(x, y) == DecNorm(x.n * y.d + y.n * x.d, x.d * y.d, x.exact /\ y.exact)

DecSub(x, y) == DecNorm(x.n * y.d - y.n * x.d, x.d * y.d, x.exact /\ y.exact)

\* x > y; rounding to 28 digits never changes the sign of a quotient of cents
DecGreater(x, y) == x.n * y.d > y.n * x.d

\* max(x, y) of Python: x unless y > x
DecMax(x, y) == IF DecGreater(y, x) THEN y ELSE x

\* x < y on Decimals
DecLess(x, y) == x.n * y.d < y.n * x.d

\* min(x, y) of Python: x unless y < x
DecMin(x, y) == IF DecLess(y, x) THEN y ELSE x

RECURSIVE Pow10(_)
Pow10(k) == IF k = 0 THEN 1 ELSE 10 * Pow10(k - 1)

\* 10^k mod d
RECURSIVE Pow10Mod(_, _)
Pow10Mod(k, d) == IF k = 0 THEN 1 % d ELSE (10 * Pow10Mod(k - 1, d)) % d

\* the number of decimal digits of n > 0
RECURSIVE Digits(_)
Digits(n) == IF n < 10 THEN 1 ELSE 1 + Digits(n \div 10)

\* The context of decimal has 28 significant digits (ROUND_HALF_EVEN).  For
\* 0 < p < d <= 31 with p/d not a finite decimal, Decimal(p) / Decimal(d) is
\* p/d rounded at QuotientPlaces(p, d) decimal places, and it is above p/d by
\* QuotientExcess(p, d) / (d * 10^places) (below it when the excess is < 0).
QuotientPlaces(p, d) == IF 10 * p >= d THEN 28 ELSE 29

QuotientExcess(p, d) ==
    LET r == (p * Pow10Mod(QuotientPlaces(p, d), d)) % d
    IN  IF 2 * r > d THEN d - r ELSE 0 - r

\* a >= t * (Decimal(str(p)) / Decimal(str(d))) for amounts a and t >= 0 of
\* cents and 0 <= p <= d <= 31: the quotient is rounded to 28 digits, then the
\* product is.  The roundings are far smaller than a cent over d, so they
\* decide the comparison only when a = t * p / d exactly: then the product is
\* above a iff the quotient was rounded up by more than half a unit of the
\* 28th digit of a.
DecGEProductOfQuotient(a, t, p, d) ==
    IF t = 0 \/ p = 0 THEN a >= 0
    ELSE IF Terminating(d \div Gcd(p, d)) THEN a * d >= t * p
    ELSE IF a * d # t * p THEN a * d > t * p
    ELSE LET e == QuotientExcess(p, d)
             unit == Pow10(Digits(a) - 1 + QuotientPlaces(p, d) - 27)
         IN  ~(e > 0 /\ (2 * a * e - 1) \div p >= unit)

-----------------------------------------------------------------------------
(* core/models.py                                                          *)

\* ExpenseCategory: the members of the enum and their string values
ExpenseCategory ==
    {"FOOD", "TRANSPORTATION", "ENTERTAINMENT", "UTILITIES",
     "SHOPPING", "HEALTH", "EDUCATION", "OTHER"}

\* category.value
CategoryValue(c) ==
    CASE c = "FOOD" -> "food"
      [] c = "TRANSPORTATION" -> "transportation"
      [] c = "ENTERTAINMENT" -> "entertainment"
      [] c = "UTILITIES" -> "utilities"
      [] c = "SHOPPING" -> "shopping"
      [] c = "HEALTH" -> "health"
      [] c = "EDUCATION" -> "education"
      [] c = "OTHER" -> "other"

\* The outcome of a call: a value, None, or a raised exception.
Ok(v) == [kind |-> "ok", value |-> v, error |-> ""]
NoResult == [kind |-> "none", value |-> <<>>, error |-> ""]
Raise(e) == [kind |-> "error", value |-> <<>>, error |-> e]

-----------------------------------------------------------------------------
(* core/calculator.py: BudgetCalculator                                    *)

\* sum(x.amount for x in xs if keep(x)); xs a sequence of records with `amount`
RECURSIVE SumAmounts(_)
SumAmounts(xs) == IF xs = <<>> THEN 0 ELSE Head(xs).amount + SumAmounts(Tail(xs))

RECURSIVE InMonth(_, _)
\* [e for e in exps if e.expense_date.month == ref.month and e.expense_date.year == ref.year]
InMonth(exps, ref) ==
    IF exps = <<>> THEN <<>>
    ELSE IF Head(exps).expense_date.month = ref.month /\ Head(exps).expense_date.year = ref.year
         THEN <<Head(exps)>> \o InMonth(Tail(exps), ref)
         ELSE InMonth(Tail(exps), ref)

\* Default target date is 3rd of next month (of today's month)
DefaultTargetDate ==
    IF today.month = 12 THEN Date(today.year + 1, 1, 3)
    ELSE Date(today.year, today.month + 1, 3)

\* a floor that lets a target of today through with 0 days
DaysRemainingUntil_ZeroAllowed(target_date) ==
    LET days == DaysBetween(target_date, today)
    IN  IF days < 0 THEN 1 ELSE days

\* days_remaining = (target_date - today).days, at least one day
DaysRemainingUntil(target_date) ==
    LET days == DaysBetween(target_date, today)
    IN  IF days <= 0 THEN 1 ELSE days

\* the caller's list trusted as it is
CurrentMonthSpent_Unfiltered(current_month_expenses) ==
    SumAmounts(current_month_expenses)

\* current_month_spent: the expenses of today's calendar month
CurrentMonthSpent(current_month_expenses) ==
    SumAmounts(InMonth(current_month_expenses, today))

\* the quotient without the clamp
RecommendedDailyLimit_NoClamp(remaining_budget, days_remaining) ==
    DecDivInt(Dec(remaining_budget), days_remaining)

\* recommended_daily_limit = max(Decimal('0'), remaining_budget / Decimal(str(days_remaining)))
RecommendedDailyLimit(remaining_budget, days_remaining) ==
    DecMax(DecZero, DecDivInt(Dec(remaining_budget), days_remaining))

\* the projection without what is already spent
ProjectedSavings_IgnoresSpent(monthly_income, current_month_spent, limit, days_remaining) ==
    DecSub(Dec(monthly_income), DecMulInt(limit, days_remaining))

\* projected_savings = monthly_income - (current_month_spent + limit * days_remaining)
ProjectedSavings(monthly_income, current_month_spent, limit, days_remaining) ==
    DecSub(Dec(monthly_income),
           DecAdd(Dec(current_month_spent), DecMulInt(limit, days_remaining)))

\* BudgetCalculator.calculate_daily_recommendation(monthly_income, savings_target,
\*     current_month_expenses, target_date=None); target_date is an optional date
calculate_daily_recommendation(monthly_income, savings_target, current_month_expenses, target_date) ==
    LET target == IF IsNone(target_date) THEN DefaultTargetDate ELSE Get(target_date)
        days_remaining == DaysRemainingUntil(target)
        current_month_spent == CurrentMonthSpent(current_month_expenses)
        available_for_spending == monthly_income - savings_target
        remaining_budget == available_for_spending - current_month_spent
        limit == RecommendedDailyLimit(remaining_budget, days_remaining)
    IN  IF days_remaining = 0
        THEN \* Decimal division by Decimal('0')
             Raise(IF remaining_budget = 0 THEN "InvalidOperation" ELSE "DivisionByZero")
        ELSE Ok([recommended_daily_limit |-> limit,
                 days_remaining |-> days_remaining,
                 current_month_spent |-> current_month_spent,
                 savings_target |-> savings_target,
                 monthly_income |-> monthly_income,
                 projected_savings |->
                     ProjectedSavings(monthly_income, current_month_spent, limit,
                                      days_remaining)])

\* total_income: the entries of the month of `month`
RECURSIVE EntriesInMonth(_, _)
EntriesInMonth(entries, month) ==
    IF entries = <<>> THEN <<>>
    ELSE IF Head(entries).month.month = month.month /\ Head(entries).month.year = month.year
         THEN <<Head(entries)>> \o EntriesInMonth(Tail(entries), month)
         ELSE EntriesInMonth(Tail(entries), month)

\* expense_by_category[category] = expense_by_category.get(category, 0) + amount
RECURSIVE GroupByCategory(_, _)
GroupByCategory(exps, acc) ==
    IF exps = <<>> THEN acc
    ELSE LET category == CategoryValue(Head(exps).category)
             old == IF category \in DOMAIN acc THEN acc[category] ELSE 0
         IN  GroupByCategory(Tail(exps),
                 [k \in DOMAIN acc \cup {category} |->
                     IF k = category THEN old + Head(exps).amount ELSE acc[k]])

EmptyMap == [k \in {} |-> 0]

\* every category present from the start, with 0
ExpenseByCategory_AllKeys(month_expenses) ==
    GroupByCategory(month_expenses, [k \in {CategoryValue(c) : c \in ExpenseCategory} |-> 0])

\* expense_by_category: Dict[str, Decimal] = {}, filled from the month's expenses
ExpenseByCategory(month_expenses) == GroupByCategory(month_expenses, EmptyMap)

\* the entries summed whatever their month
TotalIncome_Unfiltered(entries, month) == SumAmounts(entries)

\* total_income = sum(entry.amount for entry in income_entries if <same year and month>)
TotalIncome(entries, month) == SumAmounts(EntriesInMonth(entries, month))

\* the current-month test on the month number alone
DaysPassed_MonthOnly(month) ==
    IF month.month = today.month THEN today.day
    ELSE IF DateLess(month, ReplaceDay1(today)) THEN DaysInMonth(month.year, month.month)
    ELSE 0

\* days_passed of calculate_monthly_summary
DaysPassed(month) ==
    IF month.month = today.month /\ month.year = today.year THEN today.day
    ELSE IF DateLess(month, ReplaceDay1(today)) THEN DaysInMonth(month.year, month.month)
    ELSE 0

\* BudgetCalculator.calculate_monthly_summary(month, income_entries, expenses,
\*     savings_goal=None); savings_goal is an optional goal
calculate_monthly_summary(month, entries, exps, savings_goal) ==
    LET month_expenses == InMonth(exps, month)
        total_income == TotalIncome(entries, month)
        total_expenses == SumAmounts(month_expenses)
    IN  [month |-> ReplaceDay1(month),
         total_income |-> total_income,
         total_expenses |-> total_expenses,
         savings_target |-> IF IsNone(savings_goal) THEN 0 ELSE Get(savings_goal).target_amount,
         actual_savings |-> total_income - total_expenses,
         expense_by_category |-> ExpenseByCategory(month_expenses),
         days_in_month |-> DaysInMonth(month.year, month.month),
         days_passed |-> DaysPassed(month)]

-----------------------------------------------------------------------------
(* core/calculator.py: predict_monthly_outcome                             *)

\* the rate over every day of the month, those passed included
PredictedRemaining_WholeMonth(daily_spending_rate, days_remaining) ==
    DecMulInt(daily_spending_rate, days_remaining + today.day)

\* predicted_remaining = daily_spending_rate * Decimal(str(days_remaining))
PredictedRemaining(daily_spending_rate, days_remaining) ==
    DecMulInt(daily_spending_rate, days_remaining)

\* BudgetCalculator.predict_monthly_outcome(monthly_income, current_expenses),
\* with no daily_spending_rate given
predict_monthly_outcome(monthly_income, current_expenses) ==
    LET days_in_month == DaysInMonth(today.year, today.month)
        days_passed == today.day
        days_remaining == days_in_month - days_passed
        current_total == SumAmounts(InMonth(current_expenses, today))
        daily_spending_rate ==
            IF days_passed > 0 THEN DecDivInt(Dec(current_total), days_passed) ELSE DecZero
        predicted_remaining == PredictedRemaining(daily_spending_rate, days_remaining)
        predicted_total_expenses == DecAdd(Dec(current_total), predicted_remaining)
    IN  [current_expenses |-> current_total,
         predicted_remaining_expenses |-> predicted_remaining,
         predicted_total_expenses |-> predicted_total_expenses,
         predicted_savings |-> DecSub(Dec(monthly_income), predicted_total_expenses),
         daily_spending_rate |-> daily_spending_rate]

RECURSIVE InRange(_, _, _)
\* the expenses that pass `if start_date and expense.expense_date < start_date:
\* continue` and `if end_date and expense.expense_date > end_date: continue`
InRange(exps, start_date, end_date) ==
    IF exps = <<>> THEN <<>>
    ELSE LET expense == Head(exps)
             early == ~IsNone(start_date) /\ DateLess(expense.expense_date, Get(start_date))
             late == ~IsNone(end_date) /\ DateLess(Get(end_date), expense.expense_date)
         IN  IF early \/ late
             THEN InRange(Tail(exps), start_date, end_date)
             ELSE <<expense>> \o InRange(Tail(exps), start_date, end_date)

RECURSIVE CountByCategory(_, _)
\* category_counts[category] = category_counts.get(category, 0) + 1
CountByCategory(exps, acc) ==
    IF exps = <<>> THEN acc
    ELSE LET category == CategoryValue(Head(exps).category)
             old == IF category \in DOMAIN acc THEN acc[category] ELSE 0
         IN  CountByCategory(Tail(exps),
                 [k \in DOMAIN acc \cup {category} |->
                     IF k = category THEN old + 1 ELSE acc[k]])

\* the total of the list as it was handed in, before the date filter
TotalSpending_Unfiltered(given, filtered) == SumAmounts(given)

\* total_spending = sum(expense.amount for expense in expenses), after
\* `expenses = filtered_expenses`
TotalSpending(given, filtered) == SumAmounts(filtered)

\* BudgetCalculator.calculate_category_spending_analysis(expenses, start_date,
\* end_date): per category value the total, the count, the average and the
\* percentage of the total spending; {} when no expense is left
calculate_category_spending_analysis(expenses_arg, start_date, end_date) ==
    LET filtered == IF IsNone(start_date) /\ IsNone(end_date)
                    THEN expenses_arg
                    ELSE InRange(expenses_arg, start_date, end_date)
        total_spending == TotalSpending(expenses_arg, filtered)
        category_totals == GroupByCategory(filtered, EmptyMap)
        category_counts == CountByCategory(filtered, EmptyMap)
    IN  IF filtered = <<>> THEN EmptyMap
        ELSE [category \in DOMAIN category_totals |->
                 LET total == category_totals[category]
                     count == category_counts[category]
                 IN  [total |-> total,
                      count |-> count,
                      average |-> IF count > 0 THEN DecDivInt(Dec(total), count)
                                  ELSE DecZero,
                      percentage |->
                          IF total_spending > 0
                          THEN DecMulInt(DecDivInt(Dec(total), total_spending), 100)
                          ELSE DecZero]]

-----------------------------------------------------------------------------
(* services/budget_service.py and services/expense_service.py: the queries *)
(* over the tables income_entries, savings_goals and expenses.             *)

\* BudgetEntry(id=..., amount=..., month=..., description=...)
ToBudgetEntry(row) ==
    [id |-> row.id, amount |-> row.amount, month |-> row.month,
     description |-> row.description]

\* SavingsGoal(id=..., target_amount=..., month=..., description=...)
ToSavingsGoal(row) ==
    [id |-> row.id, target_amount |-> row.target_amount, month |-> row.month,
     description |-> row.description]

\* Expense(id=..., amount=..., description=..., category=..., expense_date=...):
\* the field expense_date is declared with alias="date" and the model does not
\* allow population by field name, so the keyword expense_date is ignored and
\* the field takes its default, date.today()
ToExpense(row) ==
    [id |-> row.id, amount |-> row.amount, description |-> row.description,
     category |-> row.category, expense_date |-> today]

\* BudgetService.get_monthly_income(user_id, month)
\* the amount of an entry of the user, whatever its month
get_monthly_income_AnyMonth(user_id, month) ==
    LET found == {r \in income_entries : r.user_id = user_id}
    IN  IF found = {} THEN 0 ELSE (CHOOSE r \in found : TRUE).amount

get_monthly_income(user_id, month) ==
    LET found == {r \in income_entries : r.user_id = user_id /\ r.month = ReplaceDay1(month)}
    IN  IF found = {} THEN 0 ELSE (CHOOSE r \in found : TRUE).amount

\* BudgetService.get_savings_goal(user_id, month)
get_savings_goal(user_id, month) ==
    LET found == {r \in savings_goals : r.user_id = user_id /\ r.month = ReplaceDay1(month)}
    IN  IF found = {} THEN None ELSE Some(ToSavingsGoal(CHOOSE r \in found : TRUE))

\* .order_by(<date>.desc()).all(): the rows as a list, newest date first (rows
\* of one date by id); keyed is the set of [key |-> date, row |-> row]
RECURSIVE NewestFirst(_)
NewestFirst(keyed) ==
    IF keyed = {} THEN <<>>
    ELSE LET first == CHOOSE r \in keyed :
                 \A q \in keyed :
                     \/ Ordinal(q.key) < Ordinal(r.key)
                     \/ (Ordinal(q.key) = Ordinal(r.key) /\ q.row.id >= r.row.id)
         IN  <<first.row>> \o NewestFirst(keyed \ {first})

\* BudgetService.get_income_entries(user_id, start_month, end_month), both given
get_income_entries(user_id, start_month, end_month) ==
    LET found == {r \in income_entries :
                     /\ r.user_id = user_id
                     /\ Ordinal(r.month) >= Ordinal(ReplaceDay1(start_month))
                     /\ Ordinal(r.month) <= Ordinal(ReplaceDay1(end_month))}
        rows == NewestFirst({[key |-> r.month, row |-> r] : r \in found})
    IN  [i \in 1..Len(rows) |-> ToBudgetEntry(rows[i])]

\* ExpenseService.get_expenses(user_id, start_date, end_date), both dates given
get_expenses(user_id, start_date, end_date) ==
    LET found == {r \in expenses :
                     /\ r.user_id = user_id
                     /\ Ordinal(r.expense_date) >= Ordinal(start_date)
                     /\ Ordinal(r.expense_date) <= Ordinal(end_date)}
        rows == NewestFirst({[key |-> r.expense_date, row |-> r] : r \in found})
    IN  [i \in 1..Len(rows) |-> ToExpense(rows[i])]

\* `if limit: query = query.limit(limit)`: no limit given, or the limit 0,
\* leaves the list whole
Limited(rows, limit) ==
    IF IsNone(limit) \/ Get(limit) = 0 THEN rows
    ELSE IF Get(limit) >= Len(rows) THEN rows
    ELSE SubSeq(rows, 1, Get(limit))

\* ExpenseService.get_expenses(user_id, start_date, end_date, category, limit),
\* each of the four filters optional
get_expenses_filtered(user_id, start_date, end_date, category, limit) ==
    LET found == {r \in expenses :
                     /\ r.user_id = user_id
                     /\ \/ IsNone(start_date)
                        \/ Ordinal(r.expense_date) >= Ordinal(Get(start_date))
                     /\ \/ IsNone(end_date)
                        \/ Ordinal(r.expense_date) <= Ordinal(Get(end_date))
                     /\ IsNone(category) \/ r.category = Get(category)}
        rows == Limited(NewestFirst({[key |-> r.expense_date, row |-> r] : r \in found}),
                        limit)
    IN  [i \in 1..Len(rows) |-> ToExpense(rows[i])]

\* ExpenseService.get_monthly_expenses(user_id, month): from the first of the
\* month to the first of the next month, both included
get_monthly_expenses(user_id, month) ==
    get_expenses(user_id, ReplaceDay1(month), FirstOfNextMonth(month))

\* breakdown[category_name] = breakdown.get(category_name, 0) + amount, as the
\* list of (category, amount) in the order of first appearance
RECURSIVE Breakdown(_, _)
Breakdown(exps, acc) ==
    IF exps = <<>> THEN acc
    ELSE LET name == CategoryValue(Head(exps).category)
             at == {i \in 1..Len(acc) : acc[i].category = name}
         IN  Breakdown(Tail(exps),
                 IF at = {} THEN Append(acc, [category |-> name, amount |-> Head(exps).amount])
                 ELSE [i \in 1..Len(acc) |->
                          IF i \in at
                          THEN [acc[i] EXCEPT !.amount = @ + Head(exps).amount]
                          ELSE acc[i]])

\* ExpenseService.get_category_breakdown(user_id, start_date, end_date)
get_category_breakdown(user_id, start_date, end_date) ==
    Breakdown(get_expenses(user_id, start_date, end_date), <<>>)

-----------------------------------------------------------------------------
(* services/recommendation_service.py: RecommendationService               *)

\* the parameters of BudgetCalculator.calculate_daily_recommendation
DailyRecommendationParameters ==
    {"monthly_income", "savings_target", "current_month_expenses", "target_date"}

\* a call of calculate_daily_recommendation with keyword arguments: a keyword
\* that is no parameter of the function raises TypeError
call_calculate_daily_recommendation(kwargs) ==
    IF DOMAIN kwargs \subseteq DailyRecommendationParameters
    THEN calculate_daily_recommendation(kwargs.monthly_income, kwargs.savings_target,
                                        kwargs.current_month_expenses, kwargs.target_date)
    ELSE Raise("TypeError")

\* the keyword arguments RecommendationService.get_daily_recommendation passes
DailyRecommendationKeywords(monthly_income, savings_target, current_expenses, target_date, month) ==
    [monthly_income |-> monthly_income,
     savings_target |-> savings_target,
     current_month_expenses |-> current_expenses,
     target_date |-> target_date,
     current_month |-> month]

\* RecommendationService.get_daily_recommendation(user_id, target_date, month);
\* target_date and month are optional
get_daily_recommendation(user_id, target_date, month_arg) ==
    LET month == IF IsNone(month_arg) THEN today ELSE Get(month_arg)
        monthly_income == get_monthly_income(user_id, month)
        savings_goal == get_savings_goal(user_id, month)
    IN  IF monthly_income <= 0 THEN NoResult
        ELSE IF IsNone(savings_goal) THEN NoResult
        ELSE call_calculate_daily_recommendation(
                 DailyRecommendationKeywords(monthly_income, Get(savings_goal).target_amount,
                     get_monthly_expenses(user_id, month), target_date, month))

\* RecommendationService.get_monthly_summary(user_id, month)
get_monthly_summary(user_id, month_arg) ==
    LET month == IF IsNone(month_arg) THEN today ELSE Get(month_arg)
    IN  Ok(calculate_monthly_summary(month,
               get_income_entries(user_id, month, month),
               get_monthly_expenses(user_id, month),
               get_savings_goal(user_id, month)))

\* RecommendationService.predict_monthly_outcome(user_id, month)
service_predict_monthly_outcome(user_id, month_arg) ==
    LET month == IF IsNone(month_arg) THEN today ELSE Get(month_arg)
        monthly_income == get_monthly_income(user_id, month)
    IN  IF monthly_income <= 0 THEN NoResult
        ELSE Ok(predict_monthly_outcome(monthly_income, get_monthly_expenses(user_id, month)))

Alert(type, severity, about) == [type |-> type, severity |-> severity, about |-> about]

\* the alerts of the categories over 30% of the total
RECURSIVE CategoryAlerts_Over30(_, _)
CategoryAlerts_Over30(breakdown, total_spent) ==
    IF breakdown = <<>> THEN <<>>
    ELSE (IF Head(breakdown).amount * 100 > 30 * total_spent
          THEN <<Alert("category", "info", Head(breakdown).category)>>
          ELSE <<>>) \o CategoryAlerts_Over30(Tail(breakdown), total_spent)

\* the alerts of the categories over 40% of the total, in the order of the breakdown
RECURSIVE CategoryAlerts(_, _)
CategoryAlerts(breakdown, total_spent) ==
    IF breakdown = <<>> THEN <<>>
    ELSE (IF Head(breakdown).amount * 100 > 40 * total_spent
          THEN <<Alert("category", "info", Head(breakdown).category)>>
          ELSE <<>>) \o CategoryAlerts(Tail(breakdown), total_spent)

\* "Check if daily limit is very low": the limit under Decimal('10')
BudgetAlerts(recommendation) ==
    IF DecLess(recommendation.recommended_daily_limit, Dec(1000))
    THEN <<Alert("budget", "warning", "")>>
    ELSE <<>>

\* the surplus rule as a rule of its own, judged on the savings so far
SavingsAlerts_IndependentRules(summary, prediction) ==
    IF prediction.kind # "ok" THEN <<>>
    ELSE (IF DecLess(prediction.value.predicted_savings, Dec(summary.savings_target))
          THEN <<Alert("savings", "error", "")>>
          ELSE <<>>)
         \o (IF DecGreater(Dec(summary.actual_savings),
                           DecNorm(summary.savings_target * 12, 10, TRUE))
             THEN <<Alert("savings", "success", "")>>
             ELSE <<>>)

\* "Check if spending is on track": if prediction, the shortfall rule, elif the
\* surplus rule against savings_target * Decimal('1.2')
SavingsAlerts(summary, prediction) ==
    IF prediction.kind # "ok" THEN <<>>
    ELSE IF DecLess(prediction.value.predicted_savings, Dec(summary.savings_target))
         THEN <<Alert("savings", "error", "")>>
    ELSE IF DecGreater(prediction.value.predicted_savings,
                       DecNorm(summary.savings_target * 12, 10, TRUE))
         THEN <<Alert("savings", "success", "")>>
    ELSE <<>>

\* "Check category spending": the breakdown from the first of the month to
\* today, when month is today's calendar month
CategorySpendingAlerts(user_id, month) ==
    LET breakdown == get_category_breakdown(user_id, ReplaceDay1(month), today)
        total_spent == SumAmounts(breakdown)
    IN  IF month.month = today.month /\ month.year = today.year /\ total_spent > 0
        THEN CategoryAlerts(breakdown, total_spent)
        ELSE <<>>

\* the timeline rule judged on the limit alone
TimelineAlerts_LimitOnly(recommendation) ==
    IF DecLess(recommendation.recommended_daily_limit, Dec(500))
    THEN <<Alert("timeline", "warning", "")>>
    ELSE <<>>

\* "Check if approaching month end with high spending rate"
TimelineAlerts(recommendation) ==
    IF /\ recommendation.days_remaining <= 7
       /\ DecLess(recommendation.recommended_daily_limit, Dec(500))
    THEN <<Alert("timeline", "warning", "")>>
    ELSE <<>>

\* the rules of get_smart_alerts after the setup check
SmartAlertRules(user_id, month, recommendation, summary, prediction) ==
    BudgetAlerts(recommendation) \o SavingsAlerts(summary, prediction)
        \o CategorySpendingAlerts(user_id, month) \o TimelineAlerts(recommendation)

\* the setup alert appended without the return that follows it: the rules then
\* read the fields of a recommendation that is None
get_smart_alerts_NoReturn(user_id, month_arg) ==
    LET month == IF IsNone(month_arg) THEN today ELSE Get(month_arg)
        recommendation == get_daily_recommendation(user_id, None, Some(month))
        summary == get_monthly_summary(user_id, Some(month))
        prediction == service_predict_monthly_outcome(user_id, Some(month))
    IN  IF recommendation.kind = "error" THEN recommendation
        ELSE IF recommendation.kind = "none" \/ summary.kind = "none"
             THEN Raise("AttributeError")
        ELSE Ok(SmartAlertRules(user_id, month, recommendation.value, summary.value,
                                prediction))

\* RecommendationService.get_smart_alerts(user_id, month)
get_smart_alerts(user_id, month_arg) ==
    LET month == IF IsNone(month_arg) THEN today ELSE Get(month_arg)
        recommendation == get_daily_recommendation(user_id, None, Some(month))
        summary == get_monthly_summary(user_id, Some(month))
        prediction == service_predict_monthly_outcome(user_id, Some(month))
    IN  IF recommendation.kind = "error" THEN recommendation
        ELSE IF recommendation.kind = "none" \/ summary.kind = "none"
             THEN Ok(<<Alert("setup", "warning", "")>>)
        ELSE Ok(SmartAlertRules(user_id, month, recommendation.value, summary.value,
                                prediction))

\* progress_percentage = float((actual_savings / savings_target) * 100) if
\* savings_target > 0, else 0
ProgressPercentage(summary) ==
    IF summary.savings_target > 0
    THEN DecMulInt(DecDivInt(Dec(summary.actual_savings), summary.savings_target), 100)
    ELSE DecZero

\* the percentage as it is, without the cap
CappedPercentage_NoCap(progress_percentage) == progress_percentage

\* min(progress_percentage, 100)
CappedPercentage(progress_percentage) == DecMin(progress_percentage, Dec(100))

\* on_track: actual_savings >= savings_target * (Decimal(str(days_passed)) /
\* Decimal(str(days_in_month)))
OnTrack(summary) ==
    DecGEProductOfQuotient(summary.actual_savings, summary.savings_target,
                           summary.days_passed, summary.days_in_month)

\* RecommendationService.get_savings_progress(user_id, month)
get_savings_progress(user_id, month_arg) ==
    LET month == IF IsNone(month_arg) THEN today ELSE Get(month_arg)
        summary == get_monthly_summary(user_id, Some(month))
    IN  IF summary.kind # "ok" THEN summary
        ELSE Ok([target_amount |-> summary.value.savings_target,
                 current_savings |-> summary.value.actual_savings,
                 progress_percentage |-> CappedPercentage(ProgressPercentage(summary.value)),
                 days_passed |-> summary.value.days_passed,
                 days_remaining |-> summary.value.days_in_month - summary.value.days_passed,
                 on_track |-> OnTrack(summary.value)])

-----------------------------------------------------------------------------
(* The inputs the model draws from.                                        *)

\* date.today(): the last day of a leap February, and a day early in the
\* January of the next year
Todays == {Date(2024, 2, 29), Date(2025, 1, 6)}

\* amounts of money, in cents
AmountChoices == {2550, 5000}
IncomeChoices == {0, 7000, 500000}
TargetChoices == {2000, 100000}
CategoryChoices == {"FOOD", "TRANSPORTATION"}

\* expense dates: in and around the months of Todays, and the same month of
\* another year
ExpenseDates == {Date(2024, 2, 1), Date(2023, 2, 28), Date(2024, 3, 1), Date(2025, 1, 31)}

\* target dates: far in the past, today, tomorrow, and later days
TargetDateChoices ==
    {None, Some(Date(2023, 1, 1)), Some(Date(2024, 2, 29)), Some(Date(2024, 3, 1)),
     Some(Date(2024, 3, 3)), Some(Date(2025, 1, 4)), Some(Date(2025, 12, 31))}

\* the date range of the category analysis: open, on the dates of the expenses,
\* and before all of them
StartDateChoices == {None, Some(Date(2024, 2, 1))}
EndDateChoices == {None, Some(Date(2024, 3, 1)), Some(Date(2023, 1, 1))}

\* the `month` arguments: any day of a month, before, in and after the months of Todays
MonthChoices ==
    {Date(2024, 2, 10), Date(2023, 12, 31), Date(2023, 2, 15),
     Date(2024, 3, 1), Date(2025, 2, 1), Date(2025, 1, 31)}

\* the arguments of the service calls
Users == {1, 2}
ServiceMonths == {Date(2024, 2, 10), Date(2025, 1, 1)}
ServiceIncomeAmounts == {0, 600, 500000}
ServiceGoalAmounts == {0, 3100}
ServiceExpenseAmounts == {0, 2550}
\* description: None or a text (the columns of income and goals are nullable)
IncomeDescriptions == {None, Some("salary")}
GoalDescriptions == {None, Some("trip")}
\* the description of an expense: empty, blank, and a padded word
ExpenseDescriptions == {<<>>, <<" ", " ">>, <<" ", "t", "e", "a", " ">>}
ServiceCategories == {"FOOD"}
\* the optional arguments of update_income: none, a new amount alone, a new
\* description alone, and an amount that is rejected
IncomeChanges ==
    {[amount |-> None, description |-> None],
     [amount |-> Some(500000), description |-> None],
     [amount |-> None, description |-> Some("salary")],
     [amount |-> Some(0), description |-> Some("salary")]}
\* the optional arguments of update_expense: none of them, all of them, and the
\* values that are rejected
ExpenseChanges ==
    {[amount |-> None, description |-> None, category |-> None, expense_date |-> None],
     [amount |-> Some(5000), description |-> Some(<<" ", "b", "u", "s", " ">>),
      category |-> Some("TRANSPORTATION"), expense_date |-> Some(Date(2024, 3, 1))],
     [amount |-> Some(0), description |-> None, category |-> None, expense_date |-> None],
     [amount |-> None, description |-> Some(<<" ", " ">>), category |-> None,
      expense_date |-> None],
     [amount |-> Some(5000), description |-> Some(<<>>), category |-> None,
      expense_date |-> None]}
ServiceExpenseDates == {Date(2024, 2, 1), Date(2024, 3, 1)}
\* the date ranges and the limits of get_expenses: none, and a range whose
\* bounds are dates of expenses; no limit, 0, 1 and 2
QueryRanges ==
    {[start_date |-> None, end_date |-> None],
     [start_date |-> Some(Date(2024, 2, 1)), end_date |-> Some(Date(2024, 2, 1))],
     [start_date |-> Some(Date(2024, 2, 2)), end_date |-> None]}
QueryLimits == {None, Some(0), Some(1), Some(2)}
ServiceTargetDates == {None, Some(Date(2024, 3, 3))}
QueryMonths == {None, Some(Date(2024, 2, 10))}

\* the sequences over S of length at most n
RECURSIVE SeqsUpTo(_, _)
SeqsUpTo(S, n) ==
    IF n = 0 THEN {<<>>}
    ELSE LET shorter == SeqsUpTo(S, n - 1)
         IN  shorter \cup {Append(xs, x) : xs \in {ys \in shorter : Len(ys) = n - 1}, x \in S}

\* Expense objects handed to the calculator
ExpenseObjects ==
    [amount : AmountChoices, category : CategoryChoices, expense_date : ExpenseDates]

\* BudgetEntry objects handed to the calculator
BudgetEntryObjects ==
    {[amount |-> 4000, month |-> Date(2024, 2, 1)],
     [amount |-> 500000, month |-> Date(2024, 2, 1)],
     [amount |-> 4000, month |-> Date(2025, 1, 1)]}

\* SavingsGoal objects handed to the calculator
SavingsGoalObjects == {[target_amount |-> 100000, month |-> Date(2024, 2, 1)]}

-----------------------------------------------------------------------------
(* The state.                                                              *)

NoCall == [op |-> "none", args |-> <<>>, out |-> NoResult]

Init ==
    /\ today \in Todays
    /\ income_entries = {}
    /\ savings_goals = {}
    /\ expenses = {}
    /\ next_id = [t \in {"income_entries", "savings_goals", "expenses"} |-> 1]
    /\ result = NoCall
    /\ calls = <<>>
    /\ users = {}
    /\ files = [u \in Users |-> None]

db == <<income_entries, savings_goals, expenses, next_id>>

\* what no call of a budget, expense or recommendation service changes: the
\* day, the requests in flight, the accounts and the files of the GitHub storage
env == <<today, calls, users, files>>

\* the number of rows in the database
RowCount == Cardinality(income_entries) + Cardinality(savings_goals) + Cardinality(expenses)

\* the id the table gives its next row: SQLite, the default engine, gives an
\* INTEGER PRIMARY KEY the highest id of the table plus one
NextRowId(rows) ==
    IF rows = {} THEN 1 ELSE (CHOOSE i \in {r.id : r \in rows} : \A r \in rows : r.id <= i) + 1

\* the database takes one more row into `table`
HasRoom(table) == RowCount < MaxRows /\ next_id[table] <= MaxRows

-----------------------------------------------------------------------------
(* Direct calls of the calculator, as the tests make them.  The calculator *)
(* is stateless: a run of SpecCalc is one call on inputs drawn here.       *)

CalcDailyRecommendation ==
    /\ result = NoCall
    /\ \E monthly_income \in IncomeChoices, savings_target \in TargetChoices,
       exps \in SeqsUpTo(ExpenseObjects, MaxExpenses), target_date \in TargetDateChoices :
        /\ result' = [op |-> "calculate_daily_recommendation",
                      args |-> [monthly_income |-> monthly_income,
                                savings_target |-> savings_target,
                                current_month_expenses |-> exps,
                                target_date |-> target_date],
                      out |-> calculate_daily_recommendation(
                                    monthly_income, savings_target, exps, target_date)]
        /\ UNCHANGED <<env, db>>

CalcMonthlySummary ==
    /\ result = NoCall
    /\ \E month \in MonthChoices, entries \in SeqsUpTo(BudgetEntryObjects, MaxIncomeEntries),
       exps \in SeqsUpTo(ExpenseObjects, MaxExpenses),
       savings_goal \in {None} \cup {Some(g) : g \in SavingsGoalObjects} :
        /\ result' = [op |-> "calculate_monthly_summary",
                      args |-> [month |-> month, income_entries |-> entries,
                                expenses |-> exps, savings_goal |-> savings_goal],
                      out |-> Ok(calculate_monthly_summary(month, entries, exps, savings_goal))]
        /\ UNCHANGED <<env, db>>

CalcCategorySpendingAnalysis ==
    /\ result = NoCall
    /\ \E exps \in SeqsUpTo(ExpenseObjects, MaxExpenses),
          start_date \in StartDateChoices, end_date \in EndDateChoices :
        /\ result' = [op |-> "calculate_category_spending_analysis",
                      args |-> [expenses |-> exps, start_date |-> start_date,
                                end_date |-> end_date],
                      out |-> Ok(calculate_category_spending_analysis(
                                    exps, start_date, end_date))]
        /\ UNCHANGED <<env, db>>

CalcPredictMonthlyOutcome ==
    /\ result = NoCall
    /\ \E monthly_income \in IncomeChoices, exps \in SeqsUpTo(ExpenseObjects, MaxExpenses) :
        /\ result' = [op |-> "BudgetCalculator.predict_monthly_outcome",
                      args |-> [monthly_income |-> monthly_income,
                                current_expenses |-> exps],
                      out |-> Ok(predict_monthly_outcome(monthly_income, exps))]
        /\ UNCHANGED <<env, db>>

NextCalc ==
    \/ CalcDailyRecommendation
    \/ CalcMonthlySummary
    \/ CalcCategorySpendingAnalysis
    \/ CalcPredictMonthlyOutcome

SpecCalc == Init /\ [][NextCalc]_vars

-----------------------------------------------------------------------------
(* The rules of get_smart_alerts, evaluated on a recommendation, a summary *)
(* and a prediction drawn here: the code after the setup check.            *)

\* recommended_daily_limit around Decimal('5') and Decimal('10'), in cents
RuleLimits == {0, 499, 500, 999, 1000, 5000}
RuleDaysRemaining == {1, 7, 8}
RuleSavingsTargets == {0, 100000}
RuleActualSavings == {-2550, 150000}
\* predicted_savings around the target and around 1.2 times the target
RulePredictedSavings == {-5000, 99999, 100000, 120000, 120001}

EvalSmartAlertRules ==
    /\ result = NoCall
    /\ \E limit \in RuleLimits, days_remaining \in RuleDaysRemaining,
          savings_target \in RuleSavingsTargets, actual_savings \in RuleActualSavings,
          prediction \in {NoResult} \cup
              {Ok([predicted_savings |-> Dec(x)]) : x \in RulePredictedSavings} :
        LET recommendation == [recommended_daily_limit |-> Dec(limit),
                               days_remaining |-> days_remaining]
            summary == [savings_target |-> savings_target,
                        actual_savings |-> actual_savings]
        IN  /\ result' = [op |-> "smart_alert_rules",
                          args |-> [user_id |-> 1, month |-> today,
                                    recommendation |-> recommendation,
                                    summary |-> summary, prediction |-> prediction],
                          out |-> Ok(SmartAlertRules(1, today, recommendation, summary,
                                                     prediction))]
            /\ UNCHANGED <<env, db>>

NextRules == EvalSmartAlertRules

SpecRules == Init /\ [][NextRules]_vars

\* The rules again, over tables of expenses as add_expense leaves them: the
\* category rule reads the expenses of the user from the first of the month
\* through today.
ExpenseDBRow(id, user_id, amount, category, expense_date) ==
    [id |-> id, user_id |-> user_id, amount |-> amount, description |-> <<"t", "e", "a">>,
     category |-> category, expense_date |-> expense_date]

AlertExpenseTables ==
    {{},
     {ExpenseDBRow(1, 1, 4000, "FOOD", Date(2024, 2, 1)),
      ExpenseDBRow(2, 1, 6000, "TRANSPORTATION", Date(2024, 2, 10))},
     {ExpenseDBRow(1, 1, 5000, "FOOD", Date(2024, 2, 1)),
      ExpenseDBRow(2, 1, 5000, "TRANSPORTATION", Date(2024, 2, 29))},
     {ExpenseDBRow(1, 1, 4100, "FOOD", Date(2024, 2, 1)),
      ExpenseDBRow(2, 1, 4100, "TRANSPORTATION", Date(2024, 2, 10)),
      ExpenseDBRow(3, 1, 1800, "ENTERTAINMENT", Date(2024, 2, 10))},
     {ExpenseDBRow(1, 1, 3400, "FOOD", Date(2024, 2, 1)),
      ExpenseDBRow(2, 1, 3300, "TRANSPORTATION", Date(2024, 2, 10)),
      ExpenseDBRow(3, 1, 3300, "ENTERTAINMENT", Date(2024, 2, 10))},
     {ExpenseDBRow(1, 1, 2000, "FOOD", Date(2024, 2, 1)),
      ExpenseDBRow(2, 1, 2100, "FOOD", Date(2024, 2, 2)),
      ExpenseDBRow(3, 1, 5900, "TRANSPORTATION", Date(2024, 2, 10))},
     {ExpenseDBRow(1, 2, 5000, "FOOD", Date(2024, 2, 1)),
      ExpenseDBRow(2, 1, 5000, "FOOD", Date(2024, 1, 31))}}

InitAlerts ==
    /\ today = Date(2024, 2, 29)
    /\ income_entries = {}
    /\ savings_goals = {}
    /\ expenses \in AlertExpenseTables
    /\ next_id = [t \in {"income_entries", "savings_goals", "expenses"} |->
                     IF t = "expenses" THEN NextRowId(expenses) ELSE 1]
    /\ result = NoCall
    /\ calls = <<>>
    /\ users = {}
    /\ files = [u \in Users |-> None]

SpecAlerts == InitAlerts /\ [][NextRules]_vars

-----------------------------------------------------------------------------
(* The services, called one call at a time: a call leaves its outcome in   *)
(* `result`, and Return hands control back to the caller.                  *)

Idle == result = NoCall

\* the entry overwritten with the new amount only
OverwrittenEntry_AmountOnly(old, amount, description) == [old EXCEPT !.amount = amount]

\* existing_entry.amount = amount; existing_entry.description = description
OverwrittenEntry(old, amount, description) ==
    [old EXCEPT !.amount = amount, !.description = description]

\* existing_goal.target_amount = target_amount; existing_goal.description = description
OverwrittenGoal(old, target_amount, description) ==
    [old EXCEPT !.target_amount = target_amount, !.description = description]

Call(op, args, out) == [op |-> op, args |-> args, out |-> out]

\* BudgetService.add_income(user_id, amount, month, description)
AddIncome ==
    /\ Idle
    /\ \E user_id \in Users, amount \in ServiceIncomeAmounts, month \in ServiceMonths,
          description \in IncomeDescriptions :
        LET args == [user_id |-> user_id, amount |-> amount, month |-> month,
                     description |-> description]
            month1 == ReplaceDay1(month)
            existing == {r \in income_entries : r.user_id = user_id /\ r.month = month1}
        IN  IF amount <= 0
            THEN /\ result' = Call("add_income", args, Raise("ValueError"))
                 /\ UNCHANGED <<env, db>>
            ELSE IF existing # {}
            THEN LET old == CHOOSE r \in existing : TRUE
                     new == OverwrittenEntry(old, amount, description)
                 IN  /\ income_entries' = (income_entries \ {old}) \cup {new}
                     /\ result' = Call("add_income", args, Ok(ToBudgetEntry(new)))
                     /\ UNCHANGED <<env, savings_goals, expenses, next_id>>
            ELSE LET new == [id |-> next_id["income_entries"], user_id |-> user_id,
                             amount |-> amount, month |-> month1,
                             description |-> args.description]
                 IN  /\ HasRoom("income_entries")
                     /\ income_entries' = income_entries \cup {new}
                     /\ next_id' = [next_id EXCEPT !["income_entries"] = @ + 1]
                     /\ result' = Call("add_income", args, Ok(ToBudgetEntry(new)))
                     /\ UNCHANGED <<env, savings_goals, expenses>>

\* BudgetService.set_savings_goal(user_id, target_amount, month, description)
SetSavingsGoal ==
    /\ Idle
    /\ \E user_id \in Users, target_amount \in ServiceGoalAmounts, month \in ServiceMonths,
          description \in GoalDescriptions :
        LET args == [user_id |-> user_id, target_amount |-> target_amount, month |-> month,
                     description |-> description]
            month1 == ReplaceDay1(month)
            existing == {r \in savings_goals : r.user_id = user_id /\ r.month = month1}
        IN  IF target_amount <= 0
            THEN /\ result' = Call("set_savings_goal", args, Raise("ValueError"))
                 /\ UNCHANGED <<env, db>>
            ELSE IF existing # {}
            THEN LET old == CHOOSE r \in existing : TRUE
                     new == OverwrittenGoal(old, target_amount, description)
                 IN  /\ savings_goals' = (savings_goals \ {old}) \cup {new}
                     /\ result' = Call("set_savings_goal", args, Ok(ToSavingsGoal(new)))
                     /\ UNCHANGED <<env, income_entries, expenses, next_id>>
            ELSE LET new == [id |-> next_id["savings_goals"], user_id |-> user_id,
                             target_amount |-> target_amount, month |-> month1,
                             description |-> args.description]
                 IN  /\ HasRoom("savings_goals")
                     /\ savings_goals' = savings_goals \cup {new}
                     /\ next_id' = [next_id EXCEPT !["savings_goals"] = @ + 1]
                     /\ result' = Call("set_savings_goal", args, Ok(ToSavingsGoal(new)))
                     /\ UNCHANGED <<env, income_entries, expenses>>

\* ExpenseService.add_expense(user_id, amount, description, category, expense_date)
AddExpense ==
    /\ Idle
    /\ \E user_id \in Users, amount \in ServiceExpenseAmounts,
          description \in ExpenseDescriptions,
          category \in ServiceCategories, expense_date \in ServiceExpenseDates :
        LET args == [user_id |-> user_id, amount |-> amount, description |-> description,
                     category |-> category, expense_date |-> expense_date]
            new == [id |-> next_id["expenses"], user_id |-> user_id, amount |-> amount,
                    description |-> Strip(description), category |-> category,
                    expense_date |-> expense_date]
        IN  IF amount <= 0
            THEN /\ result' = Call("add_expense", args, Raise("ValueError"))
                 /\ UNCHANGED <<env, db>>
            ELSE IF IsBlank(description)
            THEN /\ result' = Call("add_expense", args, Raise("ValueError"))
                 /\ UNCHANGED <<env, db>>
            ELSE /\ HasRoom("expenses")
                 /\ expenses' = expenses \cup {new}
                 /\ next_id' = [next_id EXCEPT !["expenses"] = @ + 1]
                 /\ result' = Call("add_expense", args, Ok(ToExpense(new)))
                 /\ UNCHANGED <<env, income_entries, savings_goals>>

\* RecommendationService.get_daily_recommendation(user_id, target_date, month)
GetDailyRecommendation ==
    /\ Idle
    /\ \E user_id \in Users, target_date \in ServiceTargetDates, month \in QueryMonths :
        /\ result' = Call("get_daily_recommendation",
                          [user_id |-> user_id, target_date |-> target_date, month |-> month],
                          get_daily_recommendation(user_id, target_date, month))
        /\ UNCHANGED <<env, db>>

\* RecommendationService.get_monthly_summary(user_id, month)
GetMonthlySummary ==
    /\ Idle
    /\ \E user_id \in Users, month \in QueryMonths :
        /\ result' = Call("get_monthly_summary", [user_id |-> user_id, month |-> month],
                          get_monthly_summary(user_id, month))
        /\ UNCHANGED <<env, db>>

\* RecommendationService.predict_monthly_outcome(user_id, month)
PredictMonthlyOutcome ==
    /\ Idle
    /\ \E user_id \in Users, month \in QueryMonths :
        /\ result' = Call("predict_monthly_outcome", [user_id |-> user_id, month |-> month],
                          service_predict_monthly_outcome(user_id, month))
        /\ UNCHANGED <<env, db>>

\* RecommendationService.get_smart_alerts(user_id, month)
GetSmartAlerts ==
    /\ Idle
    /\ \E user_id \in Users, month \in QueryMonths :
        /\ result' = Call("get_smart_alerts", [user_id |-> user_id, month |-> month],
                          get_smart_alerts(user_id, month))
        /\ UNCHANGED <<env, db>>

\* RecommendationService.get_savings_progress(user_id, month)
GetSavingsProgress ==
    /\ Idle
    /\ \E user_id \in Users, month \in QueryMonths :
        /\ result' = Call("get_savings_progress", [user_id |-> user_id, month |-> month],
                          get_savings_progress(user_id, month))
        /\ UNCHANGED <<env, db>>

\* the ids the calls name
Ids == 1..MaxRows

\* the rows with the id, whoever owns them
FilterById_AnyUser(rows, id, user_id) == {r \in rows : r.id = id}

\* session.query(...).filter_by(id=id, user_id=user_id)
FilterById(rows, id, user_id) == {r \in rows : r.id = id /\ r.user_id = user_id}

\* BudgetService.update_income(user_id, entry_id, amount, description); amount
\* and description are optional
UpdateIncome ==
    /\ Idle
    /\ \E user_id \in Users, entry_id \in Ids, changes \in IncomeChanges :
        LET amount == changes.amount
            description == changes.description
            args == [user_id |-> user_id, entry_id |-> entry_id, amount |-> amount,
                     description |-> description]
            found == FilterById(income_entries, entry_id, user_id)
        IN  IF ~IsNone(amount) /\ Get(amount) <= 0
            THEN /\ result' = Call("update_income", args, Raise("ValueError"))
                 /\ UNCHANGED <<env, db>>
            ELSE IF found = {}
            THEN /\ result' = Call("update_income", args, NoResult)
                 /\ UNCHANGED <<env, db>>
            ELSE LET entry == CHOOSE r \in found : TRUE
                     new == [entry EXCEPT
                                !.amount = IF IsNone(amount) THEN @ ELSE Get(amount),
                                !.description = IF IsNone(description) THEN @ ELSE description]
                 IN  /\ income_entries' = (income_entries \ {entry}) \cup {new}
                     /\ result' = Call("update_income", args, Ok(ToBudgetEntry(new)))
                     /\ UNCHANGED <<env, savings_goals, expenses, next_id>>

\* BudgetService.delete_income(user_id, entry_id)
DeleteIncome ==
    /\ Idle
    /\ \E user_id \in Users, entry_id \in Ids :
        LET args == [user_id |-> user_id, entry_id |-> entry_id]
            found == FilterById(income_entries, entry_id, user_id)
        IN  /\ income_entries' = income_entries \ found
            /\ next_id' = [next_id EXCEPT !["income_entries"] = NextRowId(income_entries')]
            /\ result' = Call("delete_income", args, Ok(found # {}))
            /\ UNCHANGED <<env, savings_goals, expenses>>

\* BudgetService.delete_savings_goal(user_id, goal_id)
DeleteSavingsGoal ==
    /\ Idle
    /\ \E user_id \in Users, goal_id \in Ids :
        LET args == [user_id |-> user_id, goal_id |-> goal_id]
            found == FilterById(savings_goals, goal_id, user_id)
        IN  /\ savings_goals' = savings_goals \ found
            /\ next_id' = [next_id EXCEPT !["savings_goals"] = NextRowId(savings_goals')]
            /\ result' = Call("delete_savings_goal", args, Ok(found # {}))
            /\ UNCHANGED <<env, income_entries, expenses>>

\* ExpenseService.update_expense(user_id, expense_id, amount, description,
\* category, expense_date); all but the ids are optional
UpdateExpense ==
    /\ Idle
    /\ \E user_id \in Users, expense_id \in Ids,
          changes \in ExpenseChanges :
        LET amount == changes.amount
            description == changes.description
            category == changes.category
            expense_date == changes.expense_date
            args == [user_id |-> user_id, expense_id |-> expense_id, amount |-> amount,
                     description |-> description, category |-> category,
                     expense_date |-> expense_date]
            found == FilterById(expenses, expense_id, user_id)
        IN  IF ~IsNone(amount) /\ Get(amount) <= 0
            THEN /\ result' = Call("update_expense", args, Raise("ValueError"))
                 /\ UNCHANGED <<env, db>>
            ELSE IF ~IsNone(description) /\ Strip(Get(description)) = <<>>
            THEN /\ result' = Call("update_expense", args, Raise("ValueError"))
                 /\ UNCHANGED <<env, db>>
            ELSE IF found = {}
            THEN /\ result' = Call("update_expense", args, NoResult)
                 /\ UNCHANGED <<env, db>>
            ELSE LET expense == CHOOSE r \in found : TRUE
                     new == [expense EXCEPT
                                !.amount = IF IsNone(amount) THEN @ ELSE Get(amount),
                                !.description =
                                    IF IsNone(description) THEN @ ELSE Strip(Get(description)),
                                !.category = IF IsNone(category) THEN @ ELSE Get(category),
                                !.expense_date =
                                    IF IsNone(expense_date) THEN @ ELSE Get(expense_date)]
                 IN  /\ expenses' = (expenses \ {expense}) \cup {new}
                     /\ result' = Call("update_expense", args, Ok(ToExpense(new)))
                     /\ UNCHANGED <<env, income_entries, savings_goals, next_id>>

\* ExpenseService.delete_expense(user_id, expense_id)
DeleteExpense ==
    /\ Idle
    /\ \E user_id \in Users, expense_id \in Ids :
        LET args == [user_id |-> user_id, expense_id |-> expense_id]
            found == FilterById(expenses, expense_id, user_id)
        IN  /\ expenses' = expenses \ found
            /\ next_id' = [next_id EXCEPT !["expenses"] = NextRowId(expenses')]
            /\ result' = Call("delete_expense", args, Ok(found # {}))
            /\ UNCHANGED <<env, income_entries, savings_goals>>

\* ExpenseService.get_expense_by_id(user_id, expense_id)
get_expense_by_id(user_id, expense_id) ==
    LET found == FilterById(expenses, expense_id, user_id)
    IN  IF found = {} THEN NoResult ELSE Ok(ToExpense(CHOOSE r \in found : TRUE))

\* BudgetService.get_all_savings_goals(user_id)
get_all_savings_goals(user_id) ==
    LET found == {r \in savings_goals : r.user_id = user_id}
        rows == NewestFirst({[key |-> r.month, row |-> r] : r \in found})
    IN  [i \in 1..Len(rows) |-> ToSavingsGoal(rows[i])]

\* the reads of the two stores: BudgetService.get_income_entries,
\* get_savings_goal and get_all_savings_goals, ExpenseService.get_expenses and
\* get_expense_by_id
GetIncomeEntries ==
    /\ Idle
    /\ \E user_id \in Users :
        /\ result' = Call("get_income_entries",
                          [user_id |-> user_id, start_month |-> Date(2024, 1, 15),
                           end_month |-> Date(2025, 12, 15)],
                          Ok(get_income_entries(user_id, Date(2024, 1, 15), Date(2025, 12, 15))))
        /\ UNCHANGED <<env, db>>

GetSavingsGoal ==
    /\ Idle
    /\ \E user_id \in Users, month \in ServiceMonths :
        /\ result' = Call("get_savings_goal", [user_id |-> user_id, month |-> month],
                          LET goal == get_savings_goal(user_id, month)
                          IN  IF IsNone(goal) THEN NoResult ELSE Ok(Get(goal)))
        /\ UNCHANGED <<env, db>>

GetAllSavingsGoals ==
    /\ Idle
    /\ \E user_id \in Users :
        /\ result' = Call("get_all_savings_goals", [user_id |-> user_id],
                          Ok(get_all_savings_goals(user_id)))
        /\ UNCHANGED <<env, db>>

GetExpenses ==
    /\ Idle
    /\ \E user_id \in Users :
        /\ result' = Call("get_expenses",
                          [user_id |-> user_id, start_date |-> Date(2024, 1, 1),
                           end_date |-> Date(2025, 12, 31)],
                          Ok(get_expenses(user_id, Date(2024, 1, 1), Date(2025, 12, 31))))
        /\ UNCHANGED <<env, db>>

GetExpenseById ==
    /\ Idle
    /\ \E user_id \in Users, expense_id \in Ids :
        /\ result' = Call("get_expense_by_id",
                          [user_id |-> user_id, expense_id |-> expense_id],
                          get_expense_by_id(user_id, expense_id))
        /\ UNCHANGED <<env, db>>

\* ExpenseService.get_expenses with its optional filters
QueryExpenses ==
    /\ Idle
    /\ \E user_id \in Users, range \in QueryRanges,
          category \in {None, Some("FOOD"), Some("TRANSPORTATION")},
          limit \in QueryLimits :
        /\ result' = Call("get_expenses",
                          [user_id |-> user_id, start_date |-> range.start_date,
                           end_date |-> range.end_date, category |-> category,
                           limit |-> limit],
                          Ok(get_expenses_filtered(user_id, range.start_date, range.end_date,
                                                   category, limit)))
        /\ UNCHANGED <<env, db>>

\* ExpenseService.get_monthly_expenses(user_id, month)
GetMonthlyExpenses ==
    /\ Idle
    /\ \E user_id \in Users, month \in ServiceMonths :
        /\ result' = Call("get_monthly_expenses", [user_id |-> user_id, month |-> month],
                          Ok(get_monthly_expenses(user_id, month)))
        /\ UNCHANGED <<env, db>>

\* the call returns to its caller
\* BudgetService.get_monthly_income(user_id, month)
GetMonthlyIncome ==
    /\ Idle
    /\ \E user_id \in Users, month \in ServiceMonths :
        /\ result' = Call("get_monthly_income", [user_id |-> user_id, month |-> month],
                          Ok(get_monthly_income(user_id, month)))
        /\ UNCHANGED <<env, db>>

Return ==
    /\ ~Idle
    /\ result' = NoCall
    /\ UNCHANGED <<env, db>>

Next ==
    \/ AddIncome
    \/ SetSavingsGoal
    \/ AddExpense
    \/ GetDailyRecommendation
    \/ GetMonthlySummary
    \/ PredictMonthlyOutcome
    \/ GetSmartAlerts
    \/ GetSavingsProgress
    \/ Return

Spec == Init /\ [][Next]_vars

InitStore == Init /\ today = Date(2024, 2, 29)

\* The calls of BudgetService alone: the income entries and the savings goals.
NextBudget ==
    \/ AddIncome
    \/ UpdateIncome
    \/ DeleteIncome
    \/ SetSavingsGoal
    \/ DeleteSavingsGoal
    \/ GetIncomeEntries
    \/ GetSavingsGoal
    \/ GetAllSavingsGoals
    \/ Return

SpecBudget == InitStore /\ [][NextBudget]_vars

\* The calls that write and read the income of a month.
NextIncome ==
    \/ AddIncome
    \/ UpdateIncome
    \/ DeleteIncome
    \/ SetSavingsGoal
    \/ GetMonthlyIncome
    \/ GetDailyRecommendation
    \/ Return

SpecIncome == InitStore /\ [][NextIncome]_vars

\* The calls of ExpenseService alone: the expenses.
NextExpenses ==
    \/ AddExpense
    \/ UpdateExpense
    \/ DeleteExpense
    \/ QueryExpenses
    \/ GetMonthlyExpenses
    \/ GetExpenseById
    \/ Return

SpecExpenses == InitStore /\ [][NextExpenses]_vars

\* The calls of BudgetService and ExpenseService together: the stores.
NextStore ==
    \/ AddIncome
    \/ UpdateIncome
    \/ DeleteIncome
    \/ SetSavingsGoal
    \/ DeleteSavingsGoal
    \/ AddExpense
    \/ UpdateExpense
    \/ DeleteExpense
    \/ GetIncomeEntries
    \/ GetSavingsGoal
    \/ GetAllSavingsGoals
    \/ GetExpenses
    \/ GetExpenseById
    \/ Return

SpecStore == InitStore /\ [][NextStore]_vars

-----------------------------------------------------------------------------
(* Two requests that call add_income at the same time, each in a session   *)
(* of its own: the query for the existing entry and the write that follows *)
(* it are separate steps, and the other request may run between them.      *)

Threads == {1, 2}

RaceArgs ==
    [user_id : Users, amount : ServiceIncomeAmounts,
     month : {Date(2024, 2, 1), Date(2024, 2, 10)}, description : IncomeDescriptions]

InitRace ==
    /\ today = Date(2024, 2, 29)
    /\ income_entries \in
          {{}, {[id |-> 1, user_id |-> 1, amount |-> 600, month |-> Date(2024, 2, 1),
                 description |-> None]}}
    /\ savings_goals = {}
    /\ expenses = {}
    /\ next_id = [t \in {"income_entries", "savings_goals", "expenses"} |->
                     IF t = "income_entries" THEN NextRowId(income_entries) ELSE 1]
    /\ result = NoCall
    /\ calls \in [Threads ->
                    {[pc |-> "start", args |-> a, existing |-> None, out |-> NoResult] :
                        a \in RaceArgs}]
    /\ users = {}
    /\ files = [u \in Users |-> None]

\* add_income up to the query: the check of the amount, the month put on day 1,
\* and session.query(IncomeEntryDB).filter_by(user_id, month).first()
AddIncomeQuery(t) ==
    /\ calls[t].pc = "start"
    /\ LET args == calls[t].args
           found == {r \in income_entries :
                        r.user_id = args.user_id /\ r.month = ReplaceDay1(args.month)}
       IN  calls' = [calls EXCEPT ![t] =
                        IF args.amount <= 0
                        THEN [@ EXCEPT !.pc = "done", !.out = Raise("ValueError")]
                        ELSE [@ EXCEPT !.pc = "queried",
                                       !.existing = IF found = {} THEN None
                                                    ELSE Some((CHOOSE r \in found : TRUE).id)]]
    /\ UNCHANGED <<today, users, files, db, result>>

\* add_income from the query on: the entry found is overwritten, or a new row
\* is added; the commit of a second row for the (user, month) breaks the
\* UniqueConstraint, and get_session turns the IntegrityError into DatabaseError
AddIncomeCommit(t) ==
    /\ calls[t].pc = "queried"
    /\ LET args == calls[t].args
           month1 == ReplaceDay1(args.month)
           done(out) == [calls EXCEPT ![t] = [@ EXCEPT !.pc = "done", !.out = out]]
       IN  IF ~IsNone(calls[t].existing)
           THEN LET rows == {r \in income_entries : r.id = Get(calls[t].existing)}
                IN  IF rows = {}
                    THEN /\ calls' = done(Raise("DatabaseError"))
                         /\ UNCHANGED <<today, users, files, db, result>>
                    ELSE LET old == CHOOSE r \in rows : TRUE
                             new == OverwrittenEntry(old, args.amount, args.description)
                         IN  /\ income_entries' = (income_entries \ {old}) \cup {new}
                             /\ calls' = done(Ok(ToBudgetEntry(new)))
                             /\ UNCHANGED <<today, users, files, savings_goals, expenses, next_id, result>>
           ELSE IF \E r \in income_entries : r.user_id = args.user_id /\ r.month = month1
           THEN /\ calls' = done(Raise("DatabaseError"))
                /\ UNCHANGED <<today, users, files, db, result>>
           ELSE LET new == [id |-> next_id["income_entries"], user_id |-> args.user_id,
                            amount |-> args.amount, month |-> month1,
                            description |-> args.description]
                IN  /\ HasRoom("income_entries")
                    /\ income_entries' = income_entries \cup {new}
                    /\ next_id' = [next_id EXCEPT !["income_entries"] = @ + 1]
                    /\ calls' = done(Ok(ToBudgetEntry(new)))
                    /\ UNCHANGED <<today, users, files, savings_goals, expenses, result>>

NextRace == \E t \in Threads : AddIncomeQuery(t) \/ AddIncomeCommit(t)

SpecRace == InitRace /\ [][NextRace]_vars

-----------------------------------------------------------------------------
(* services/auth_service.py: AuthService over the table users.  A message  *)
(* of an exception is the sequence of its parts.                           *)

RaiseMessage(e, message) == [kind |-> "error", value |-> message, error |-> e]

\* DatabaseManager.get_session around the body of a `with` block: whatever
\* the body raises is rolled back and raised anew as DatabaseError
get_session(out) ==
    IF out.kind = "error"
    THEN RaiseMessage("DatabaseError", <<"Database operation failed: ">> \o out.value)
    ELSE out

\* User._hash_password: sha256 of password + salt, one hash per pair
_hash_password(password, salt) == <<password, salt>>

check_password(user, password) == user.password_hash = _hash_password(password, user.salt)

ToUserProfile(user) ==
    [id |-> user.id, username |-> user.username, email |-> user.email,
     full_name |-> user.full_name, last_login |-> user.last_login]

\* UserCreate objects: the validators have put username and email in lower case
UserCreates ==
    [username : {"alice", "bob"}, email : {"alice@example.org", "bob@example.org"},
     password : {"secret1"}, full_name : {None}]

\* UserLogin objects: the username is taken as typed
UserLogins == [username : {"alice", "Alice", "bob"}, password : {"secret1", "secret2"}]

\* secrets.token_hex(16)
Salts == {"5f2a", "c41d"}

RegisterUser ==
    /\ Idle
    /\ \E user_data \in UserCreates, salt \in Salts :
        LET existing == {u \in users : u.username = user_data.username
                                         \/ u.email = user_data.email}
            db_user == [id |-> NextRowId(users), username |-> user_data.username,
                        email |-> user_data.email, full_name |-> user_data.full_name,
                        salt |-> salt,
                        password_hash |-> _hash_password(user_data.password, salt),
                        is_active |-> TRUE, last_login |-> None]
        IN  IF existing # {}
            THEN \E existing_user \in existing :
                    /\ result' = Call("register_user", user_data, get_session(
                          IF existing_user.username = user_data.username
                          THEN RaiseMessage("AuthenticationError",
                                            <<"Username ", "already exists">>)
                          ELSE RaiseMessage("AuthenticationError",
                                            <<"Email ", "already exists">>)))
                    /\ UNCHANGED <<today, calls, db, users, files>>
            ELSE /\ Cardinality(users) < MaxRows
                 /\ users' = users \cup {db_user}
                 /\ result' = Call("register_user", user_data,
                                   get_session(Ok(ToUserProfile(db_user))))
                 /\ UNCHANGED <<today, calls, db, files>>

LoginUser ==
    /\ Idle
    /\ \E login_data \in UserLogins :
        LET found == {u \in users : u.username = login_data.username /\ u.is_active}
        IN  IF found = {}
            THEN /\ result' = Call("login_user", login_data, get_session(
                        RaiseMessage("AuthenticationError", <<"Invalid username or password">>)))
                 /\ UNCHANGED <<today, calls, db, users, files>>
            ELSE \E user \in found :
                    IF ~check_password(user, login_data.password)
                    THEN /\ result' = Call("login_user", login_data, get_session(
                                RaiseMessage("AuthenticationError",
                                             <<"Invalid username or password">>)))
                         /\ UNCHANGED <<today, calls, db, users, files>>
                    ELSE LET logged == [user EXCEPT !.last_login = Some(today)]
                         IN  /\ users' = (users \ {user}) \cup {logged}
                             /\ result' = Call("login_user", login_data,
                                               get_session(Ok(ToUserProfile(logged))))
                             /\ UNCHANGED <<today, calls, db, files>>

DeactivateUser ==
    /\ Idle
    /\ \E user_id \in Users :
        LET found == {u \in users : u.id = user_id}
        IN  IF found = {}
            THEN /\ result' = Call("deactivate_user", [user_id |-> user_id],
                                   get_session(Ok(FALSE)))
                 /\ UNCHANGED <<today, calls, db, users, files>>
            ELSE LET user == CHOOSE u \in found : TRUE
                 IN  /\ users' = (users \ {user}) \cup {[user EXCEPT !.is_active = FALSE]}
                     /\ result' = Call("deactivate_user", [user_id |-> user_id],
                                       get_session(Ok(TRUE)))
                     /\ UNCHANGED <<today, calls, db, files>>

NextAuth ==
    \/ RegisterUser
    \/ LoginUser
    \/ DeactivateUser
    \/ Return

SpecAuth == InitStore /\ [][NextAuth]_vars

-----------------------------------------------------------------------------
(* storage/github_storage.py: GitHubStorage over the files                 *)
(* users/{user_id}/data.json of the repository.  `files` gives the decoded *)
(* content of the file of each user, None while the file does not exist.   *)
(* Every request to the GitHub API either gets its response ("ok") or      *)
(* fails ("error": no connection, a timeout, an error status, a body that  *)
(* does not decode).                                                       *)

Responses == {"ok", "error"}

\* date.isoformat() and datetime.fromisoformat(...).date()
isoformat(d) == <<d.year, d.month, d.day>>
fromisoformat(str) == Date(str[1], str[2], str[3])

\* GET of the file: 404 gives None, and so does every failure
_get_file_content(fs, user_id, get) ==
    IF get = "ok" THEN fs[user_id] ELSE None

\* GET for the sha of the file, then PUT.  The repository takes a PUT without
\* sha only for a file that does not exist yet.
_save_file_content(fs, user_id, content, get, put) ==
    LET sha == IF get = "ok" /\ ~IsNone(fs[user_id]) THEN Some("sha") ELSE None
        accepted == put = "ok" /\ (IsNone(fs[user_id]) \/ ~IsNone(sha))
    IN  [saved |-> accepted,
         files |-> IF accepted THEN [fs EXCEPT ![user_id] = Some(content)] ELSE fs]

EmptyUserData(user_id) ==
    [user_id |-> user_id, income_entries |-> <<>>, expenses |-> <<>>,
     savings_goals |-> <<>>, created_at |-> today, updated_at |-> today]

\* the three requests a call of get_user_data may make
ReadResponses == [get : Responses, sha : Responses, put : Responses]
\* the two requests of save_user_data
SaveResponses == [sha : Responses, put : Responses]

storage_get_user_data(fs, user_id, r) ==
    LET data == _get_file_content(fs, user_id, r.get)
    IN  IF IsNone(data)
        THEN [data |-> EmptyUserData(user_id),
              files |-> _save_file_content(fs, user_id, EmptyUserData(user_id),
                                           r.sha, r.put).files]
        ELSE [data |-> Get(data), files |-> fs]

save_user_data(fs, user_id, data, r) ==
    _save_file_content(fs, user_id, [data EXCEPT !.updated_at = today], r.sha, r.put)

\* the entries of the stored file of a user, all lists together
StoredEntries(user_id) ==
    IF IsNone(files[user_id]) THEN 0
    ELSE Len(Get(files[user_id]).income_entries) + Len(Get(files[user_id]).expenses)
            + Len(Get(files[user_id]).savings_goals)

\* the dicts handed to add_income_entry, add_expense and add_savings_goal
StorageIncomeEntries == {[amount |-> 500000, month |-> isoformat(Date(2024, 2, 1))]}
StorageExpenses ==
    {[amount |-> 2550, category |-> "food", expense_date |-> isoformat(d)] :
        d \in {Date(2024, 2, 1), Date(2024, 2, 10)}}
StorageSavingsGoals == {[target_amount |-> 3100, month |-> isoformat(Date(2024, 2, 1))]}

\* the entry with its id and created_at
Stamped(entry, id) ==
    [k \in DOMAIN entry \cup {"id", "created_at"} |->
        IF k = "id" THEN id ELSE IF k = "created_at" THEN today ELSE entry[k]]

\* add_income_entry, add_expense and add_savings_goal: the entry appended to
\* the list `field` of what get_user_data returned, and the whole saved
StorageAdd(op, field, user_id, entry, r1, r2) ==
    LET got == storage_get_user_data(files, user_id, r1)
        data == [got.data EXCEPT
                    ![field] = Append(@, Stamped(entry, Len(got.data[field]) + 1))]
        saved == save_user_data(got.files, user_id, data, r2)
    IN  /\ StoredEntries(user_id) < MaxRows
        /\ files' = saved.files
        /\ result' = Call(op, [user_id |-> user_id, entry |-> entry], Ok(saved.saved))
        /\ UNCHANGED <<today, calls, db, users>>

StorageAddIncomeEntry ==
    /\ Idle
    /\ \E user_id \in Users, entry \in StorageIncomeEntries,
          r1 \in ReadResponses, r2 \in SaveResponses :
        StorageAdd("GitHubStorage.add_income_entry", "income_entries", user_id, entry, r1, r2)

StorageAddExpense ==
    /\ Idle
    /\ \E user_id \in Users, expense \in StorageExpenses,
          r1 \in ReadResponses, r2 \in SaveResponses :
        StorageAdd("GitHubStorage.add_expense", "expenses", user_id, expense, r1, r2)

StorageAddSavingsGoal ==
    /\ Idle
    /\ \E user_id \in Users, goal \in StorageSavingsGoals,
          r1 \in ReadResponses, r2 \in SaveResponses :
        StorageAdd("GitHubStorage.add_savings_goal", "savings_goals", user_id, goal, r1, r2)

StorageGetUserData ==
    /\ Idle
    /\ \E user_id \in Users, r \in ReadResponses :
        LET got == storage_get_user_data(files, user_id, r)
        IN  /\ files' = got.files
            /\ result' = Call("GitHubStorage.get_user_data", [user_id |-> user_id],
                              Ok(got.data))
            /\ UNCHANGED <<today, calls, db, users>>

RECURSIVE FilteredExpenses(_, _, _)
FilteredExpenses(exps, start_date, end_date) ==
    IF exps = <<>> THEN <<>>
    ELSE LET expense_date == fromisoformat(Head(exps).expense_date)
             rest == FilteredExpenses(Tail(exps), start_date, end_date)
         IN  IF ~IsNone(start_date) /\ Ordinal(expense_date) < Ordinal(Get(start_date))
             THEN rest
             ELSE IF ~IsNone(end_date) /\ Ordinal(expense_date) > Ordinal(Get(end_date))
             THEN rest
             ELSE <<Head(exps)>> \o rest

StorageGetExpenses ==
    /\ Idle
    /\ \E user_id \in Users, r \in ReadResponses,
          start_date \in {None, Some(Date(2024, 2, 2))}, end_date \in {None} :
        LET got == storage_get_user_data(files, user_id, r)
            out == IF ~IsNone(start_date) \/ ~IsNone(end_date)
                   THEN FilteredExpenses(got.data.expenses, start_date, end_date)
                   ELSE got.data.expenses
        IN  /\ files' = got.files
            /\ result' = Call("GitHubStorage.get_expenses",
                              [user_id |-> user_id, start_date |-> start_date,
                               end_date |-> end_date], Ok(out))
            /\ UNCHANGED <<today, calls, db, users>>

StorageGetIncomeEntries ==
    /\ Idle
    /\ \E user_id \in Users, r \in ReadResponses :
        LET got == storage_get_user_data(files, user_id, r)
        IN  /\ files' = got.files
            /\ result' = Call("GitHubStorage.get_income_entries", [user_id |-> user_id],
                              Ok(got.data.income_entries))
            /\ UNCHANGED <<today, calls, db, users>>

StorageGetSavingsGoals ==
    /\ Idle
    /\ \E user_id \in Users, r \in ReadResponses :
        LET got == storage_get_user_data(files, user_id, r)
        IN  /\ files' = got.files
            /\ result' = Call("GitHubStorage.get_savings_goals", [user_id |-> user_id],
                              Ok(got.data.savings_goals))
            /\ UNCHANGED <<today, calls, db, users>>

NextStorage ==
    \/ StorageAddIncomeEntry
    \/ StorageAddExpense
    \/ StorageAddSavingsGoal
    \/ StorageGetUserData
    \/ StorageGetExpenses
    \/ StorageGetIncomeEntries
    \/ StorageGetSavingsGoals
    \/ Return

SpecStorage == InitStore /\ [][NextStorage]_vars

-----------------------------------------------------------------------------
(* Properties of the calculator (checked under SpecCalc).                  *)

IsDaily == result.op = "calculate_daily_recommendation" /\ result.out.kind = "ok"
IsSummary == result.op = "calculate_monthly_summary" /\ result.out.kind = "ok"

\* the sum of f[i] over the indices i of I
RECURSIVE SumOver(_, _)
SumOver(I, f) ==
    IF I = {} THEN 0
    ELSE LET i == CHOOSE j \in I : TRUE IN f[i] + SumOver(I \ {i}, f)

\* the total of the amounts of xs at the indices I
TotalAt(xs, I) == SumOver(I, [i \in 1..Len(xs) |-> xs[i].amount])

RemainingBudget ==
    result.args.monthly_income - result.args.savings_target
        - result.out.value.current_month_spent

\* C2: the recommended daily limit is max(0, (monthlyIncome - savingsTarget -
\* currentMonthSpent) / daysRemaining): it is 0 when the remaining budget is
\* zero or negative, and otherwise the quotient of the remaining budget by the
\* days remaining; it is never negative.
C2_DailyLimitIsClampedQuotient ==
    IsDaily =>
        LET rec == result.out.value
            limit == rec.recommended_daily_limit
        IN  /\ limit.d > 0 /\ limit.n >= 0
            /\ RemainingBudget <= 0 => limit.n = 0
            /\ RemainingBudget > 0 => limit.n * rec.days_remaining = RemainingBudget * limit.d

C2_Witness ==
    /\ IsDaily
    /\ RemainingBudget < 0
    /\ result.args.monthly_income - result.args.savings_target > 0
    /\ result.out.value.recommended_daily_limit.n = 0

\* C3: daysRemaining is the number of days from today to targetDate when that
\* number is at least 1, and exactly 1 when targetDate is today or in the past;
\* it is never 0 or negative.
C3_DaysRemainingFlooredAtOne ==
    result.op = "calculate_daily_recommendation" =>
        /\ result.out.kind = "ok"
        /\ result.out.value.days_remaining >= 1
        /\ ~IsNone(result.args.target_date) =>
              LET days == Ordinal(Get(result.args.target_date)) - Ordinal(today)
              IN  result.out.value.days_remaining = (IF days >= 1 THEN days ELSE 1)

C3_Witness ==
    /\ IsDaily
    /\ ~IsNone(result.args.target_date)
    /\ Ordinal(Get(result.args.target_date)) - Ordinal(today) < -300
    /\ result.out.value.days_remaining = 1

\* C5: currentMonthSpent is the sum of the amounts of exactly those expenses of
\* the supplied list whose date has the year and the month of today.
C5_SpentIsTodaysMonthOnly ==
    IsDaily =>
        LET exps == result.args.current_month_expenses
        IN  result.out.value.current_month_spent =
                TotalAt(exps, {i \in 1..Len(exps) :
                                  /\ exps[i].expense_date.year = today.year
                                  /\ exps[i].expense_date.month = today.month})

C5_Witness ==
    /\ IsDaily
    /\ \E i, j \in 1..Len(result.args.current_month_expenses) :
          LET ei == result.args.current_month_expenses[i]
              ej == result.args.current_month_expenses[j]
          IN  /\ ei.expense_date.month = today.month /\ ei.expense_date.year # today.year
              /\ ej.expense_date.month = today.month /\ ej.expense_date.year = today.year
              /\ result.out.value.current_month_spent = ej.amount

\* C6: projectedSavings = monthlyIncome - (currentMonthSpent + recommendedDailyLimit
\* * daysRemaining); when the division is exact it equals savingsTarget if the
\* remaining budget is >= 0, and monthlyIncome - currentMonthSpent, which is
\* strictly less than savingsTarget, if the limit was clamped to 0.
C6_ProjectedSavings ==
    IsDaily =>
        LET rec == result.out.value
            limit == rec.recommended_daily_limit
            projected == rec.projected_savings
            left == result.args.monthly_income - rec.current_month_spent
        IN  /\ projected.d > 0
            /\ limit.exact =>
                  projected.n * limit.d =
                      projected.d * (left * limit.d - limit.n * rec.days_remaining)
            /\ (limit.exact /\ RemainingBudget >= 0) =>
                  projected = Dec(result.args.savings_target)
            /\ (limit.exact /\ RemainingBudget < 0) =>
                  /\ projected = Dec(left)
                  /\ left < result.args.savings_target

C6_Witness ==
    /\ IsDaily
    /\ RemainingBudget < 0
    /\ result.out.value.current_month_spent > 0
    /\ result.args.monthly_income > 0
    /\ result.out.value.projected_savings.n < 0

YearMonth(dt) == dt.year * 12 + dt.month

\* C7: daysPassed is today's day of the month when `month` lies in today's
\* calendar month, the length of the month when it lies in an earlier month, and
\* 0 when it lies in a later month; so 0 <= daysPassed <= daysInMonth.
C7_DaysPassed ==
    IsSummary =>
        LET month == result.args.month
            summary == result.out.value
            length == DaysInMonth(month.year, month.month)
        IN  /\ summary.days_in_month = length
            /\ YearMonth(month) = YearMonth(today) => summary.days_passed = today.day
            /\ YearMonth(month) < YearMonth(today) => summary.days_passed = length
            /\ YearMonth(month) > YearMonth(today) => summary.days_passed = 0
            /\ 0 <= summary.days_passed /\ summary.days_passed <= summary.days_in_month

C7_Witness ==
    /\ IsSummary
    /\ result.args.month.month = today.month
    /\ result.args.month.year > today.year
    /\ result.out.value.days_passed = 0

CategoryValues ==
    {"food", "transportation", "entertainment", "utilities",
     "shopping", "health", "education", "other"}

\* C8: the values of expenseByCategory sum to totalExpenses, every key is the
\* string value of one of the eight categories, and a category is a key exactly
\* when an expense of the month has it (so no key has the value 0).
C8_ExpenseByCategory ==
    IsSummary =>
        LET by_category == result.out.value.expense_by_category
            month == result.args.month
            exps == result.args.expenses
        IN  /\ SumOver(DOMAIN by_category, by_category) = result.out.value.total_expenses
            /\ DOMAIN by_category \subseteq CategoryValues
            /\ \A k \in DOMAIN by_category : by_category[k] > 0
            /\ \A k \in CategoryValues :
                  k \in DOMAIN by_category <=>
                      \E i \in 1..Len(exps) :
                          /\ exps[i].expense_date.year = month.year
                          /\ exps[i].expense_date.month = month.month
                          /\ CategoryValue(exps[i].category) = k

C8_Witness ==
    /\ IsSummary
    /\ DOMAIN result.out.value.expense_by_category = {"food"}
    /\ \E i \in 1..Len(result.args.expenses) :
          result.args.expenses[i].category = "TRANSPORTATION"

\* C9: the summary counts only the records whose year and month are those of
\* `month`: totalIncome and totalExpenses are the sums of the matching entries
\* and expenses, actualSavings is their difference, savingsTarget is the goal's
\* target or 0 without a goal, and the returned month has day 1.
C9_SummaryTotals ==
    IsSummary =>
        LET month == result.args.month
            summary == result.out.value
            entries == result.args.income_entries
            exps == result.args.expenses
        IN  /\ summary.total_income =
                  TotalAt(entries, {i \in 1..Len(entries) :
                                       /\ entries[i].month.year = month.year
                                       /\ entries[i].month.month = month.month})
            /\ summary.total_expenses =
                  TotalAt(exps, {i \in 1..Len(exps) :
                                    /\ exps[i].expense_date.year = month.year
                                    /\ exps[i].expense_date.month = month.month})
            /\ summary.actual_savings = summary.total_income - summary.total_expenses
            /\ summary.savings_target =
                  (IF IsNone(result.args.savings_goal) THEN 0
                   ELSE Get(result.args.savings_goal).target_amount)
            /\ summary.month = Date(month.year, month.month, 1)

C9_Witness ==
    /\ IsSummary
    /\ result.args.month.day # 1
    /\ result.out.value.total_income > 0
    /\ result.out.value.actual_savings < 0
    /\ Len(result.args.expenses) > Len(InMonth(result.args.expenses, result.args.month))

IsAnalysis ==
    result.op = "calculate_category_spending_analysis" /\ result.out.kind = "ok"

\* the indices of the expenses of the call that lie in its date range, the
\* bounds included; a bound that is None is no bound
IndicesInRange ==
    LET args == result.args
    IN  {i \in 1..Len(args.expenses) :
            /\ \/ IsNone(args.start_date)
               \/ Ordinal(args.expenses[i].expense_date) >= Ordinal(Get(args.start_date))
            /\ \/ IsNone(args.end_date)
               \/ Ordinal(args.expenses[i].expense_date) <= Ordinal(Get(args.end_date))}

RECURSIVE SumDecOver(_, _)
SumDecOver(K, f) ==
    IF K = {} THEN DecZero
    ELSE LET k == CHOOSE j \in K : TRUE IN DecAdd(f[k], SumDecOver(K \ {k}, f))

\* x is the quotient n / d
DecIsRatio(x, n, d) == x.n * d = n * x.d

IsPrediction ==
    result.op = "BudgetCalculator.predict_monthly_outcome" /\ result.out.kind = "ok"

\* C21: with no rate given, predict_monthly_outcome takes currentTotal as the
\* sum of the expenses of today's month and year, dailySpendingRate =
\* currentTotal / today's day of the month, predictedRemaining = rate * (days in
\* the month - day of the month), predictedTotalExpenses = currentTotal +
\* predictedRemaining and predictedSavings = monthlyIncome -
\* predictedTotalExpenses (the quotient as Decimal holds it); so without
\* current-month expenses the rate is 0 and predictedSavings = monthlyIncome, on
\* the last day of the month predictedTotalExpenses = currentTotal, and
\* predictedSavings <= monthlyIncome.
C21_PredictedOutcome ==
    IsPrediction =>
        LET out == result.out.value
            exps == result.args.current_expenses
            income == result.args.monthly_income
            total == TotalAt(exps, {i \in 1..Len(exps) : SameMonth(exps[i].expense_date, today)})
            day == today.day
            days == DaysInMonth(today.year, today.month)
        IN  /\ out.current_expenses = total
            /\ DecIsRatio(out.daily_spending_rate, total, day)
            /\ DecIsRatio(out.predicted_remaining_expenses, total * (days - day), day)
            /\ DecIsRatio(out.predicted_total_expenses, total * days, day)
            /\ DecIsRatio(out.predicted_savings, income * day - total * days, day)
            /\ total = 0 =>
                  /\ out.daily_spending_rate = DecZero
                  /\ out.predicted_savings = Dec(income)
            /\ day = days => out.predicted_total_expenses = Dec(total)
            /\ ~DecGreater(out.predicted_savings, Dec(income))

\* days of the month are left, an expense of another month was handed in, and
\* the rate is a quotient that does not terminate
C21_Witness ==
    /\ IsPrediction
    /\ today.day < DaysInMonth(today.year, today.month)
    /\ result.out.value.current_expenses > 0
    /\ \E i \in 1..Len(result.args.current_expenses) :
          ~SameMonth(result.args.current_expenses[i].expense_date, today)
    /\ ~result.out.value.daily_spending_rate.exact
    /\ DecLess(result.out.value.predicted_savings, Dec(result.args.monthly_income))

-----------------------------------------------------------------------------
(* Properties of the recommendation service (checked under Spec).          *)

\* the month a service call is about: its `month` argument, or today
CallMonth == IF IsNone(result.args.month) THEN today ELSE Get(result.args.month)

\* the income rows and the goal rows of the call's user for the call's month
IncomeRowsOfCall ==
    {r \in income_entries :
        /\ r.user_id = result.args.user_id
        /\ r.month = Date(CallMonth.year, CallMonth.month, 1)}

GoalRowsOfCall ==
    {r \in savings_goals :
        /\ r.user_id = result.args.user_id
        /\ r.month = Date(CallMonth.year, CallMonth.month, 1)}

\* the user of the call has income > 0 and a savings goal for the month
Configured == (\E r \in IncomeRowsOfCall : r.amount > 0) /\ GoalRowsOfCall # {}

\* C1: get_daily_recommendation never fails with an error; it returns no result
\* exactly when the income of the month is <= 0 or the month has no savings
\* goal, and otherwise the calculator's recommendation for that income and that
\* goal's target.
C1_RecommendationNeverFails ==
    result.op = "get_daily_recommendation" =>
        /\ result.out.kind # "error"
        /\ result.out.kind = "none" <=> ~Configured
        /\ Configured =>
              /\ result.out.kind = "ok"
              /\ \E r \in IncomeRowsOfCall : result.out.value.monthly_income = r.amount
              /\ \E g \in GoalRowsOfCall : result.out.value.savings_target = g.target_amount

\* C4: with targetDate omitted the target is the 3rd day of the month that
\* follows currentMonth, the month the recommendation is asked for.
C4_DefaultTargetFollowsCurrentMonth ==
    (/\ result.op = "get_daily_recommendation"
     /\ IsNone(result.args.target_date)
     /\ Configured) =>
        LET next == FirstOfNextMonth(CallMonth)
            days == Ordinal(Date(next.year, next.month, 3)) - Ordinal(today)
        IN  /\ result.out.kind = "ok"
            /\ result.out.value.days_remaining = (IF days >= 1 THEN days ELSE 1)

\* C10: for a user without income (<= 0) or without a savings goal for the
\* month, get_smart_alerts returns exactly one alert, of type 'setup' and
\* severity 'warning', whatever expenses the user has.
C10_SetupAlertOnly ==
    (result.op = "get_smart_alerts" /\ ~Configured) =>
        /\ result.out.kind = "ok"
        /\ Len(result.out.value) = 1
        /\ result.out.value[1].type = "setup"
        /\ result.out.value[1].severity = "warning"

C10_Witness ==
    /\ result.op = "get_smart_alerts"
    /\ \E r \in IncomeRowsOfCall : r.amount > 0
    /\ GoalRowsOfCall = {}
    /\ \E e \in expenses : e.user_id = result.args.user_id /\ SameMonth(e.expense_date, CallMonth)
    /\ result.out = Ok(<<Alert("setup", "warning", "")>>)

-----------------------------------------------------------------------------
(* Properties of the alert rules (checked under SpecRules, SpecAlerts and   *)
(* Spec).                                                                  *)

\* the call returned a list of alerts
IsAlertList ==
    /\ result.op \in {"get_smart_alerts", "smart_alert_rules"}
    /\ result.out.kind = "ok"

\* the positions of the alerts of a type and a severity in the returned list
AlertsOf(type, severity) ==
    {i \in 1..Len(result.out.value) :
        result.out.value[i].type = type /\ result.out.value[i].severity = severity}

SavingsAlertCount ==
    Cardinality({i \in 1..Len(result.out.value) : result.out.value[i].type = "savings"})

\* C11: no returned list of alerts holds both the savings-shortfall alert
\* ('savings', 'error') and the savings-surplus alert ('savings', 'success');
\* a list holds at most one alert of type 'savings'.
C11_OneSavingsAlert ==
    IsAlertList =>
        /\ ~(AlertsOf("savings", "error") # {} /\ AlertsOf("savings", "success") # {})
        /\ SavingsAlertCount <= 1

\* a predicted shortfall while the savings so far are over 1.2 times the target
C11_Witness ==
    /\ result.op = "smart_alert_rules"
    /\ result.out.kind = "ok"
    /\ result.args.prediction.kind = "ok"
    /\ DecLess(result.args.prediction.value.predicted_savings,
               Dec(result.args.summary.savings_target))
    /\ result.args.summary.actual_savings * 10 > result.args.summary.savings_target * 12
    /\ AlertsOf("savings", "error") # {}
    /\ SavingsAlertCount = 1

\* the recommendation the calculator gives for the income, the goal and the
\* month's expenses of the call's user
RecommendationOfCall ==
    calculate_daily_recommendation(
        (CHOOSE r \in IncomeRowsOfCall : TRUE).amount,
        (CHOOSE g \in GoalRowsOfCall : TRUE).target_amount,
        get_monthly_expenses(result.args.user_id, CallMonth), None)

\* C12: for a user with income > 0 and a savings goal for the month,
\* get_smart_alerts returns a list, and the list holds a 'budget' alert of
\* severity 'warning' exactly when the recommended daily limit is under 10 (a
\* limit of exactly 10 gives none), whatever the other rules do.
C12_BudgetAlertIffLowLimit ==
    (result.op = "get_smart_alerts" /\ Configured) =>
        /\ result.out.kind = "ok"
        /\ AlertsOf("budget", "warning") # {} <=>
              DecLess(RecommendationOfCall.value.recommended_daily_limit, Dec(1000))

\* the spend of the call's user in a category, and in all, from the first of
\* the month of the call through today
SpendOfCall(categories) ==
    LET rows == {e \in expenses :
                    /\ e.user_id = result.args.user_id
                    /\ e.category \in categories
                    /\ Ordinal(e.expense_date) >= Ordinal(Date(CallMonth.year, CallMonth.month, 1))
                    /\ Ordinal(e.expense_date) <= Ordinal(today)}
    IN  SumOver(rows, [e \in rows |-> e.amount])

\* C13: for a configured user get_smart_alerts returns a list that holds an
\* 'info' alert of type 'category' for a category exactly when `month` is
\* today's calendar month and the category's share of the spend from the 1st of
\* the month through today is strictly over 40%; each such category has its own
\* alert, and no other month gives a category alert.
C13_CategoryAlertIffOver40 ==
    (result.op = "get_smart_alerts" /\ Configured) =>
        /\ result.out.kind = "ok"
        /\ \A c \in ExpenseCategory :
              (\E i \in AlertsOf("category", "info") :
                   result.out.value[i].about = CategoryValue(c))
              <=> /\ YearMonth(CallMonth) = YearMonth(today)
                  /\ SpendOfCall({c}) * 100 > 40 * SpendOfCall(ExpenseCategory)

\* the place of the rule of an alert type in get_smart_alerts
RuleOrder(type) ==
    CASE type = "setup" -> 0
      [] type = "budget" -> 1
      [] type = "savings" -> 2
      [] type = "category" -> 3
      [] type = "timeline" -> 4

\* C28: every list returned by get_smart_alerts has its alerts in the fixed
\* order budget, savings, category, timeline; a 'timeline' warning is present
\* exactly when daysRemaining <= 7 and recommendedDailyLimit < 5, and whenever
\* it is present a 'budget' warning is present too and precedes it.
C28_AlertOrderAndTimeline ==
    IsAlertList =>
        LET alerts == result.out.value
        IN  /\ \A i, j \in 1..Len(alerts) :
                  i < j => RuleOrder(alerts[i].type) <= RuleOrder(alerts[j].type)
            /\ result.op = "smart_alert_rules" =>
                  (AlertsOf("timeline", "warning") # {}
                   <=> /\ result.args.recommendation.days_remaining <= 7
                       /\ DecLess(result.args.recommendation.recommended_daily_limit,
                                  Dec(500)))
            /\ \A j \in AlertsOf("timeline", "warning") :
                  \E i \in AlertsOf("budget", "warning") : i < j

\* a list with an alert of each rule: budget, savings, category, timeline
C28_Witness ==
    /\ result.op = "smart_alert_rules"
    /\ result.out.kind = "ok"
    /\ Len(result.out.value) = 4
    /\ [i \in 1..4 |-> result.out.value[i].type]
          = <<"budget", "savings", "category", "timeline">>

\* the positions of the category alerts in the returned list
CategoryAlertsOfList ==
    {i \in 1..Len(result.out.value) : result.out.value[i].type = "category"}

\* the expenses of the call's user from the first of today's month through today
MonthToDateExpenses ==
    {e \in expenses :
        /\ e.user_id = result.args.user_id
        /\ Ordinal(e.expense_date) >= Ordinal(Date(today.year, today.month, 1))
        /\ Ordinal(e.expense_date) <= Ordinal(today)}

\* C29: a list returned by get_smart_alerts contains at most two alerts of
\* type 'category', each for a different category; and when the user has no
\* expense from the 1st of the month through today (total 0) the list has no
\* category alert.
C29_AtMostTwoCategoryAlerts ==
    IsAlertList =>
        /\ Cardinality(CategoryAlertsOfList) <= 2
        /\ \A i, j \in CategoryAlertsOfList :
              result.out.value[i].about = result.out.value[j].about => i = j
        /\ MonthToDateExpenses = {} => CategoryAlertsOfList = {}

\* two category alerts while the user has spent in three categories
C29_Witness ==
    /\ result.op = "smart_alert_rules"
    /\ result.out.kind = "ok"
    /\ Cardinality(CategoryAlertsOfList) = 2
    /\ Cardinality({e.category : e \in MonthToDateExpenses}) = 3

-----------------------------------------------------------------------------
(* Properties of get_savings_progress (checked under Spec).                *)

IsProgress == result.op = "get_savings_progress" /\ result.out.kind = "ok"

\* C14: progressPercentage is min(100, actualSavings / savingsTarget * 100)
\* when savingsTarget > 0 and 0 when savingsTarget is 0; it never exceeds 100
\* and is exactly 100 whenever actualSavings >= savingsTarget > 0.
C14_ProgressPercentage ==
    result.op = "get_savings_progress" =>
        /\ result.out.kind = "ok"
        /\ LET progress == result.out.value.progress_percentage
               actual == result.out.value.current_savings
               target == result.out.value.target_amount
           IN  /\ progress.d > 0
               /\ progress.n <= 100 * progress.d
               /\ target = 0 => progress.n = 0
               /\ (target > 0 /\ actual >= target) => progress.n = 100 * progress.d
               /\ (target > 0 /\ actual < target) =>
                     progress.n * target = actual * 100 * progress.d

\* savings far over the target
C14_Witness ==
    /\ IsProgress
    /\ result.out.value.target_amount > 0
    /\ result.out.value.current_savings > 100 * result.out.value.target_amount
    /\ result.out.value.progress_percentage = Dec(100)

\* C15: onTrack is true iff actualSavings >= savingsTarget * daysPassed /
\* daysInMonth; so for a future month (daysPassed = 0) iff actualSavings >= 0
\* and for a past month iff actualSavings >= savingsTarget; daysRemaining is
\* daysInMonth - daysPassed and never negative.
C15_OnTrackIsLinearPacing ==
    IsProgress =>
        LET progress == result.out.value
            days_in_month == DaysInMonth(CallMonth.year, CallMonth.month)
        IN  /\ progress.on_track <=>
                  progress.current_savings * days_in_month
                      >= progress.target_amount * progress.days_passed
            /\ YearMonth(CallMonth) > YearMonth(today) =>
                  (progress.on_track <=> progress.current_savings >= 0)
            /\ YearMonth(CallMonth) < YearMonth(today) =>
                  (progress.on_track <=> progress.current_savings >= progress.target_amount)
            /\ progress.days_remaining = days_in_month - progress.days_passed
            /\ progress.days_remaining >= 0

\* C22: get_monthly_summary returns a summary whenever the user has an income
\* entry for the month, also when every total is zero, and returns no result
\* (None) when the user has no income entry for that month.
C22_SummaryIffIncomeEntry ==
    result.op = "get_monthly_summary" =>
        /\ IncomeRowsOfCall # {} => result.out.kind = "ok"
        /\ IncomeRowsOfCall = {} => result.out = NoResult

\* C27: the progressPercentage returned by get_savings_progress is never
\* negative: it lies in the range 0..100 for every summary, also when the
\* month's expenses exceed its income (actualSavings < 0) while a positive
\* savings target is set.
C27_ProgressWithinRange ==
    IsProgress =>
        LET progress == result.out.value.progress_percentage
        IN  /\ progress.d > 0
            /\ 0 <= progress.n
            /\ progress.n <= 100 * progress.d

-----------------------------------------------------------------------------
(* Properties of the stores (checked under SpecBudget and SpecStore).      *)

\* the rows of a table are one per (user, month), with the month on day 1
OnePerUserMonth(rows) ==
    /\ \A r \in rows : r.month.day = 1
    /\ \A r1, r2 \in rows : (r1.user_id = r2.user_id /\ r1.month = r2.month) => r1 = r2

\* a step that is a successful call `op` for a (user, month) that has a row in
\* `rows` leaves in `after` the same rows but for that one, which keeps its id
\* and has the amount (in the field `field`) and the description of the call
OverwritesInPlace(op, rows, after, field) ==
    (result = NoCall /\ result'.op = op /\ result'.out.kind = "ok") =>
        LET args == result'.args
            old == {r \in rows : /\ r.user_id = args.user_id
                                 /\ r.month = Date(args.month.year, args.month.month, 1)}
        IN  old # {} =>
                /\ Cardinality(after) = Cardinality(rows)
                /\ \E r \in old, n \in after :
                      /\ after \ {n} = rows \ {r}
                      /\ n.id = r.id /\ n.user_id = r.user_id /\ n.month = r.month
                      /\ n[field] = args[field]
                      /\ n.description = args.description
                      /\ result'.out.value.id = r.id

\* C16: the store holds at most one income entry and at most one savings goal
\* per (user, month), each with its month on day 1; a call of add_income or
\* set_savings_goal for a (user, month) that has an entry creates no row, keeps
\* the entry's id and replaces its amount and description by those of the call.
C16_OnePerUserMonthOverwritten ==
    /\ [](OnePerUserMonth(income_entries) /\ OnePerUserMonth(savings_goals))
    /\ [][/\ OverwritesInPlace("add_income", income_entries, income_entries', "amount")
          /\ OverwritesInPlace("set_savings_goal", savings_goals, savings_goals',
                               "target_amount")]_vars

\* add_income for a day inside the month has overwritten entry 1, which had
\* another description, while entry 2 exists
C16_Witness ==
    /\ result.op = "add_income"
    /\ result.out.kind = "ok"
    /\ result.args.month.day # 1
    /\ result.out.value.id = 1
    /\ result.args.description = None
    /\ \E r \in income_entries : r.id = 2
    /\ \E r \in income_entries :
          r.id = 1 /\ r.amount = result.args.amount /\ r.description = None

\* the table a call reads or writes
TableOfCall(op) ==
    IF op \in {"add_income", "update_income", "delete_income", "get_income_entries"}
    THEN income_entries
    ELSE IF op \in {"set_savings_goal", "delete_savings_goal", "get_savings_goal",
                    "get_all_savings_goals"}
    THEN savings_goals
    ELSE expenses

\* the records the call has handed to its caller
ReturnedRecords ==
    IF result.out.kind # "ok" THEN {}
    ELSE IF result.op \in {"get_income_entries", "get_all_savings_goals", "get_expenses"}
    THEN {result.out.value[i] : i \in 1..Len(result.out.value)}
    ELSE IF result.op \in {"delete_income", "delete_savings_goal", "delete_expense"}
    THEN {}
    ELSE {result.out.value}

\* every record handed to the caller is a row of the caller
ReturnsOnlyOwnRecords ==
    \A v \in ReturnedRecords :
        \E r \in TableOfCall(result.op) : r.id = v.id /\ r.user_id = result.args.user_id

RowsOfOthers(rows, user_id) == {r \in rows : r.user_id # user_id}

\* a call leaves the rows of every user but its caller as they were
OthersUntouched ==
    (result = NoCall /\ result' # NoCall) =>
        LET caller == result'.args.user_id
        IN  /\ RowsOfOthers(income_entries', caller) = RowsOfOthers(income_entries, caller)
            /\ RowsOfOthers(savings_goals', caller) = RowsOfOthers(savings_goals, caller)
            /\ RowsOfOthers(expenses', caller) = RowsOfOthers(expenses, caller)

\* the id a call by id names
IdOfCall(call) ==
    IF call.op \in {"update_income", "delete_income"} THEN call.args.entry_id
    ELSE IF call.op = "delete_savings_goal" THEN call.args.goal_id
    ELSE call.args.expense_id

\* a call that names the id of a row of another user finds nothing: a get or
\* an update whose arguments are valid returns None, a delete returns False
ForeignIdNotFound ==
    (/\ result = NoCall
     /\ result'.op \in {"update_income", "delete_income", "delete_savings_goal",
                        "update_expense", "delete_expense", "get_expense_by_id"}) =>
        LET call == result'
            named == {r \in TableOfCall(call.op) :
                         r.id = IdOfCall(call) /\ r.user_id # call.args.user_id}
        IN  named # {} =>
                IF call.op \in {"delete_income", "delete_savings_goal", "delete_expense"}
                THEN call.out = Ok(FALSE)
                ELSE call.out.kind # "error" => call.out = NoResult

NonPositive(amount) == ~IsNone(amount) /\ Get(amount) <= 0

\* a description that is given and is empty or made of spaces only
EmptyOrSpaces(description) ==
    ~IsNone(description) /\ \A i \in 1..Len(Get(description)) : Get(description)[i] = " "

\* the call in `result` has an argument that validation rejects
InvalidCall ==
    \/ result.op = "add_income" /\ NonPositive(Some(result.args.amount))
    \/ result.op = "set_savings_goal" /\ NonPositive(Some(result.args.target_amount))
    \/ result.op = "update_income" /\ NonPositive(result.args.amount)
    \/ result.op = "add_expense" /\ \/ NonPositive(Some(result.args.amount))
                                    \/ EmptyOrSpaces(Some(result.args.description))
    \/ result.op = "update_expense" /\ \/ NonPositive(result.args.amount)
                                       \/ EmptyOrSpaces(result.args.description)

\* C19: add_income, update_income, set_savings_goal, add_expense and
\* update_expense with a non-positive amount, and add_expense and update_expense
\* with an empty or whitespace-only description, raise ValueError itself (the
\* check precedes the session, whose errors surface as DatabaseError), and the
\* rejected call leaves every table as it was: no row changed, none created.
C19_ValidationBeforeStorage ==
    /\ [](InvalidCall => result.out = Raise("ValueError"))
    /\ [][(result = NoCall /\ result'.out.kind = "error") => db' = db]_vars

\* update_expense was rejected for a whitespace-only description although it
\* named an expense of the caller, which is still as it was added
C19_Witness ==
    /\ result.op = "update_expense"
    /\ result.out = Raise("ValueError")
    /\ IsNone(result.args.amount)
    /\ EmptyOrSpaces(result.args.description)
    /\ \E r \in expenses :
          /\ r.id = result.args.expense_id
          /\ r.user_id = result.args.user_id
          /\ r.description = <<"t", "e", "a">>

-----------------------------------------------------------------------------
(* Properties of the income of a month (checked under SpecIncome).         *)

\* the amount of the entry of (user, month) among `rows`, 0 without an entry
IncomeOf(rows, user_id, month) ==
    LET found == {r \in rows : r.user_id = user_id /\ r.month = month}
    IN  IF found = {} THEN 0 ELSE (CHOOSE r \in found : TRUE).amount

\* the entry an update_income or delete_income call names
NamedEntry(rows, args) == {r \in rows : r.id = args.entry_id /\ r.user_id = args.user_id}

\* what the income of (user, month) is after the step, given the call the step made
IncomeAfter(user_id, month) ==
    LET args == result'.args
        ok == result'.out.kind = "ok"
    IN  IF /\ result'.op = "add_income" /\ ok
           /\ user_id = args.user_id /\ month = ReplaceDay1(args.month)
        THEN args.amount
        ELSE IF /\ result'.op = "update_income" /\ ok /\ ~IsNone(args.amount)
                /\ \E r \in NamedEntry(income_entries, args) :
                      r.user_id = user_id /\ r.month = month
        THEN Get(args.amount)
        ELSE IF /\ result'.op = "delete_income" /\ result'.out = Ok(TRUE)
                /\ \E r \in NamedEntry(income_entries, args) :
                      r.user_id = user_id /\ r.month = month
        THEN 0
        ELSE IncomeOf(income_entries, user_id, month)

IncomeMonths ==
    {r.month : r \in income_entries \cup income_entries'}
        \cup {ReplaceDay1(m) : m \in ServiceMonths}

\* C26: get_monthly_income(user, month) is the amount of the entry of that
\* (user, month), which is the amount of the latest successful add_income or
\* update_income on it, and 0 when there is no entry (never written, or
\* deleted since): a successful add_income or update_income with an amount
\* sets it, a successful delete_income makes it 0, and no other step changes
\* it; and get_daily_recommendation for a (user, month) without an entry is
\* 'no result'
C26_IncomeIsLatestWrite ==
    /\ [](/\ result.op = "get_monthly_income" =>
                result.out = Ok(IncomeOf(income_entries, result.args.user_id,
                                         ReplaceDay1(result.args.month)))
          /\ result.op = "get_daily_recommendation" =>
                LET month == IF IsNone(result.args.month) THEN today
                             ELSE Get(result.args.month)
                IN  IncomeOf(income_entries, result.args.user_id, ReplaceDay1(month)) = 0
                        => result.out = NoResult)
    /\ [][\A user_id \in Users, month \in IncomeMonths :
              IncomeOf(income_entries', user_id, month) = IncomeAfter(user_id, month)]_vars

\* delete_income has deleted the only income entry of a user who has a
\* savings goal
C26_Witness ==
    /\ result.op = "delete_income"
    /\ result.out = Ok(TRUE)
    /\ income_entries = {}
    /\ \E g \in savings_goals : g.user_id = result.args.user_id

-----------------------------------------------------------------------------
(* Properties of the expense store (checked under SpecExpenses).           *)

\* the ids of the records of a returned list, in its order
ReturnedIds == [i \in 1..Len(result.out.value) |-> result.out.value[i].id]

\* the row of the expense with the id
ExpenseRow(id) == CHOOSE r \in expenses : r.id = id

\* C23: get_monthly_expenses(user, month) returns exactly the user's expenses
\* dated in the calendar month of `month`, from its first to its last day, and
\* none dated in the following month, the 1st of that month included.
C23_MonthlyExpensesOfTheMonth ==
    result.op = "get_monthly_expenses" =>
        {ReturnedIds[i] : i \in 1..Len(ReturnedIds)} =
            {r.id : r \in {e \in expenses :
                              /\ e.user_id = result.args.user_id
                              /\ SameMonth(e.expense_date, result.args.month)}}

\* C24: get_expenses returns the user's expenses that match the date range
\* (bounds included) and the category, newest date first; with a limit n >= 0
\* it returns the n newest of them, all of them when they are fewer than n, so
\* never more than n.
C24_FilteredNewestFirstLimited ==
    (result.op = "get_expenses" /\ "limit" \in DOMAIN result.args) =>
        LET args == result.args
            matching == {r \in expenses :
                            /\ r.user_id = args.user_id
                            /\ \/ IsNone(args.start_date)
                               \/ ~DateLess(r.expense_date, Get(args.start_date))
                            /\ \/ IsNone(args.end_date)
                               \/ ~DateLess(Get(args.end_date), r.expense_date)
                            /\ IsNone(args.category) \/ r.category = Get(args.category)}
            ids == ReturnedIds
            returned == {ids[i] : i \in 1..Len(ids)}
        IN  /\ returned \subseteq {r.id : r \in matching}
            /\ Cardinality(returned) = Len(ids)
            /\ \A i, j \in 1..Len(ids) :
                  i < j => ~DateLess(ExpenseRow(ids[i]).expense_date,
                                     ExpenseRow(ids[j]).expense_date)
            /\ IsNone(args.limit) => Len(ids) = Cardinality(matching)
            /\ ~IsNone(args.limit) =>
                  /\ Len(ids) <= Get(args.limit)
                  /\ Len(ids) = Get(args.limit) \/ Len(ids) = Cardinality(matching)
                  /\ \A r \in matching : r.id \notin returned =>
                        \A id \in returned :
                            ~DateLess(ExpenseRow(id).expense_date, r.expense_date)

-----------------------------------------------------------------------------
(* Properties of the authentication service (checked under SpecAuth).      *)

Contains(message, part) == \E i \in 1..Len(message) : message[i] = part

\* the active users a login names with their password
LoginMatches ==
    {u \in users : /\ u.username = result.args.username
                   /\ u.is_active
                   /\ check_password(u, result.args.password)}

\* C25: AuthService reports authentication failures as AuthenticationError:
\* register_user either creates the user, the only one of that username and
\* of that email, or raises AuthenticationError with a message containing
\* 'already exists' and creates none; login_user returns the profile of an
\* active user whose password matches, and otherwise (unknown username,
\* deactivated user, wrong password) raises
\* AuthenticationError('Invalid username or password')
C25_AuthenticationErrors ==
    /\ \A u, v \in users : (u.username = v.username \/ u.email = v.email) => u = v
    /\ result.op = "register_user" =>
          IF result.out.kind = "ok"
          THEN \E u \in users : /\ ToUserProfile(u) = result.out.value
                                /\ u.username = result.args.username
                                /\ u.email = result.args.email
          ELSE /\ result.out.error = "AuthenticationError"
               /\ Contains(result.out.value, "already exists")
    /\ result.op = "login_user" =>
          IF LoginMatches # {}
          THEN \E u \in LoginMatches : result.out = Ok(ToUserProfile(u))
          ELSE result.out = RaiseMessage("AuthenticationError",
                                         <<"Invalid username or password">>)

-----------------------------------------------------------------------------
(* Properties of the GitHub storage (checked under SpecStorage).           *)

StorageReads ==
    {"GitHubStorage.get_user_data", "GitHubStorage.get_expenses",
     "GitHubStorage.get_income_entries", "GitHubStorage.get_savings_goals"}

\* C30: the read operations of GitHubStorage (get_user_data, get_expenses,
\* get_income_entries, get_savings_goals) never overwrite data already stored
\* for a user: the only write a read may perform is the creation of an empty
\* record for a user whose file does not exist, and a read of an existing
\* file, failed or not, leaves the stored income entries, expenses and
\* savings goals unchanged.
C30_ReadsNeverOverwrite ==
    [][result'.op \in StorageReads =>
          \A u \in Users :
              IF IsNone(files[u])
              THEN files'[u] \in {None, Some(EmptyUserData(u))}
              ELSE files'[u] = files[u]]_vars

-----------------------------------------------------------------------------
(* Properties of concurrent requests (checked under SpecRace).             *)

\* C17: add_income is an atomic upsert: when two calls for one (user, month)
\* interleave, both succeed, exactly one entry of that (user, month) exists
\* afterwards, and it has the amount and the description of one of the two.
C17_ConcurrentUpsert ==
    \A t1, t2 \in Threads :
        (/\ t1 # t2
         /\ calls[t1].pc = "done" /\ calls[t2].pc = "done"
         /\ calls[t1].args.amount > 0 /\ calls[t2].args.amount > 0
         /\ calls[t1].args.user_id = calls[t2].args.user_id
         /\ SameMonth(calls[t1].args.month, calls[t2].args.month)) =>
            LET rows == {r \in income_entries :
                            /\ r.user_id = calls[t1].args.user_id
                            /\ SameMonth(r.month, calls[t1].args.month)}
            IN  /\ calls[t1].out.kind = "ok"
                /\ calls[t2].out.kind = "ok"
                /\ Cardinality(rows) = 1
                /\ \A r \in rows : \E t \in {t1, t2} :
                      /\ r.amount = calls[t].args.amount
                      /\ r.description = calls[t].args.description

====
